---- MODULE Spec2Model ----
(***************************************************************************)
(* NUVI audio core: the diagnostic harness AudioCheck (lib/audio-check)    *)
(* and the capture pipeline AudioRecorder (lib/audio-recorder.ts), as      *)
(* state machines.                                                         *)
(*                                                                         *)
(* JavaScript runs every handler to completion: a method runs from its     *)
(* call to its first `await` in one step, and from the settlement of the   *)
(* awaited browser promise (or timer) to the next `await` in one step.     *)
(* An `await` of one of the object's own async methods adds no point at    *)
(* which another task can run, so such a call is part of the same step.    *)
(* Every action below is one such step.  The browser (getUserMedia,        *)
(* AudioContext, audioWorklet.addModule, timers, the meter worklet's       *)
(* messages) is the environment: its outcomes are chosen with \E.          *)
(*                                                                         *)
(* Levels are in thousandths (0.001 is 1, 0.05 is 50, 1.0 is 1000); means  *)
(* and percents are exact rationals [n, d] in lowest terms, where the      *)
(* program computes IEEE doubles.                                          *)
(***************************************************************************)
EXTENDS Integers, Sequences, FiniteSets, TLC

VARIABLES
  ac,     \* the fields of one AudioCheck instance
  dev,    \* the browser objects the instance created: streams, nodes, tone
  calls,  \* the calls in flight on the instance: id -> position and locals
  caller, \* the code using the instance: calls made, and how it calls
  out,    \* what the last step let out, in order: the progress events
          \* emitted and the promises settled
  rec,    \* the fields of one AudioRecorder instance
  mic,    \* the browser objects the recorder created
  starts, \* the start() calls in flight on the recorder: id -> position
  tray,   \* the code using the recorder: start() and stop() calls made
  live,   \* useLiveAPI: the playback streamer and the audio clock
  app     \* App and its TopicPicker: the step and the selections

checkVars == <<ac, dev, calls, caller>>
recVars == <<rec, mic, starts, tray, live, app>>
vars == <<ac, dev, calls, caller, out, rec, mic, starts, tray, live, app>>

(***************************************************************************)
(* Bounds of the model                                                     *)
(***************************************************************************)
MaxCalls == 2      \* calls a caller that awaits each call makes
MaxOverlapping == 2  \* calls a caller that does not await them makes
MaxSamples == 1    \* level samples the meters post in one behaviour
MaxStarts == 2     \* start() calls made on the recorder
MaxStops == 2      \* stop() calls made on the recorder

\* Level samples the meter may deliver (thousandths).
Levels == {0, 4}

\* Sample rates the shared audio context may run at.
Rates == {16000, 24000}

\* null / undefined of an object-valued field; object ids are 1, 2, ...
Null == 0

None == << >>
Some(x) == <<x>>

(***************************************************************************)
(* Exact rationals                                                         *)
(***************************************************************************)
Abs(x) == IF x < 0 THEN -x ELSE x

RECURSIVE GCD(_, _)
GCD(a, b) == IF b = 0 THEN a ELSE GCD(b, a % b)

Rat(n, d) == LET g == GCD(Abs(n), d) IN [n |-> n \div g, d |-> d \div g]

RatOf(k) == [n |-> k, d |-> 1]
RatSub(a, b) == Rat(a.n * b.d - b.n * a.d, a.d * b.d)
RatLess(a, b) == a.n * b.d < b.n * a.d
RatMax(a, b) == IF RatLess(a, b) THEN b ELSE a

RECURSIVE Sum(_)
Sum(s) == IF s = << >> THEN 0 ELSE Head(s) + Sum(Tail(s))

\* a.reduce((a, b) => a + b, 0) / a.length, and 0 for an empty array
Average(s) == IF Len(s) > 0 THEN Rat(Sum(s), Len(s)) ELSE RatOf(0)

(***************************************************************************)
(* AudioCheck: construction                                                *)
(***************************************************************************)
\* The configs a harness is constructed with: the partial config objects
\* callers pass.  The second one puts every threshold on a level the meter
\* can deliver, so that the bounds' strictness is exercised.
ConfigInputs ==
  { [echoTestDuration |-> 2, micTestDuration |-> 1],
    [echoTestDuration |-> 1, micTestDuration |-> 1, minMicLevel |-> 4,
     maxBackgroundNoise |-> 4, echoThreshold |-> 4] }

\* config.key ?? default
OrDefault(config, key, default) ==
  IF key \in DOMAIN config THEN config[key] ELSE default

constructor(config) ==
  [ audioContext |-> Null,     \* Null, or the context (its sampleRate)
    stream |-> Null,
    source |-> Null,
    volMeterWorklet |-> Null,
    oscillator |-> Null,
    gainNode |-> Null,
    isRunning |-> FALSE,
    config |->
      [ echoTestDuration |-> OrDefault(config, "echoTestDuration", 3),
        micTestDuration |-> OrDefault(config, "micTestDuration", 2),
        minMicLevel |-> OrDefault(config, "minMicLevel", 1),
        maxBackgroundNoise |-> OrDefault(config, "maxBackgroundNoise", 5),
        echoThreshold |-> OrDefault(config, "echoThreshold", 50),
        targetSampleRate |-> OrDefault(config, "targetSampleRate", 24000) ],
    results |-> [sampleRate |-> None, echoTest |-> None, microphoneTest |-> None],
    volumeHistory |-> << >>,
    backgroundNoiseLevel |-> RatOf(0) ]

\* What the browser offers: both APIs, no media capture, no Web Audio.
PlatformKinds == {"ok", "noGetUserMedia", "noWebAudio"}

\* The browser objects made for the harness.  streams[s] is the state of the
\* tracks of the s-th MediaStream getUserMedia returned; a source node has the
\* id of the stream it wraps; connected holds the source nodes that have an
\* outgoing connection; meters[m] is the m-th AudioWorkletNode: the source
\* feeding it, whether disconnect() was called on it, and the handler on its
\* port (kind and owning call); playing holds the started oscillators;
\* posted counts the level messages the meters have posted, of at most budget.
NoHandler == [kind |-> "none", call |-> 0]

Browser(platform) ==
  [ platform |-> platform,
    streams |-> << >>,
    connected |-> {},
    meters |-> << >>,
    playing |-> {},
    posted |-> 0,
    budget |-> MaxSamples ]

World == [ac |-> ac, dev |-> dev, calls |-> calls, out |-> << >>]

(***************************************************************************)
(* Calls, progress events, settlement                                      *)
(***************************************************************************)
Kinds == {"init", "runAllTests", "getSampleRate", "runEchoTest", "runMicTest"}

NewCall(kind) ==
  [ kind |-> kind, pc |-> "start",
    i |-> 0,                       \* the tick loops' counter
    sampleRate |-> 0,              \* getSampleRate's local
    noiseVolumes |-> << >>,        \* measureBackgroundNoise's local
    echoVolumes |-> << >>,         \* runEchoTest's local
    cleaned |-> FALSE,             \* history: cleanup() ran during the call
    obtained |-> Null,             \* history: the stream getUserMedia gave it
    failed |-> {},                 \* history: the tests whose catch block ran
    trace |-> << >> ]              \* history: stage and percent of its events

\* emitProgress: the event's stage and percent, and of its message the value
\* it reports (info), if any.  The snapshot of the results is left out.
emitInfo(w, c, stage, progress, info) ==
  [w EXCEPT !.out =
     Append(@, [type |-> "progress", call |-> c, stage |-> stage,
                progress |-> progress, info |-> info]),
            !.calls[c].trace =
     Append(@, [stage |-> stage, progress |-> progress])]

emitProgress(w, c, stage, progress) == emitInfo(w, c, stage, progress, None)

\* The call's promise settles; the call and its locals are gone.
settle(w, c, outcome, error, value) ==
  [w EXCEPT
     !.calls = [x \in DOMAIN w.calls \ {c} |-> w.calls[x]],
     !.out = Append(@, [type |-> "settled", call |-> c, kind |-> w.calls[c].kind,
                        outcome |-> outcome, error |-> error, value |-> value,
                        cleaned |-> w.calls[c].cleaned,
                        obtained |-> w.calls[c].obtained,
                        failed |-> w.calls[c].failed,
                        trace |-> w.calls[c].trace,
                        noiseVolumes |-> w.calls[c].noiseVolumes,
                        echoVolumes |-> w.calls[c].echoVolumes])]

at(w, c, pc) == [w EXCEPT !.calls[c].pc = pc]

(***************************************************************************)
(* AudioCheck.cleanup                                                      *)
(***************************************************************************)
\* A plausible slip: the test tone is left playing.
cleanupKeepsTone(w) ==
  LET a == w.ac
      d == w.dev
  IN [w EXCEPT
        !.ac = [a EXCEPT !.isRunning = FALSE,
                         !.oscillator = Null,
                         !.gainNode = Null,
                         !.volMeterWorklet = Null,
                         !.source = Null,
                         !.stream = Null,
                         !.audioContext = Null],
        !.dev = [d EXCEPT
                   !.meters = IF a.volMeterWorklet # Null
                              THEN [@ EXCEPT ![a.volMeterWorklet].disconnected = TRUE]
                              ELSE @,
                   !.connected = @ \ {a.source},
                   !.streams = IF a.stream # Null
                               THEN [@ EXCEPT ![a.stream] = "stopped"]
                               ELSE @]]

cleanup(w) ==
  LET a == w.ac
      d == w.dev
  IN [w EXCEPT
        !.ac = [a EXCEPT !.isRunning = FALSE,
                         !.oscillator = Null,
                         !.gainNode = Null,
                         !.volMeterWorklet = Null,
                         !.source = Null,
                         !.stream = Null,
                         !.audioContext = Null],
        !.dev = [d EXCEPT
                   !.playing = @ \ {a.oscillator},
                   !.meters = IF a.volMeterWorklet # Null
                              THEN [@ EXCEPT ![a.volMeterWorklet].disconnected = TRUE]
                              ELSE @,
                   !.connected = @ \ {a.source},
                   !.streams = IF a.stream # Null
                               THEN [@ EXCEPT ![a.stream] = "stopped"]
                               ELSE @]]

isInitialized(a) ==
  a.audioContext # Null /\ a.source # Null /\ a.volMeterWorklet # Null

(***************************************************************************)
(* The verdict                                                             *)
(***************************************************************************)
WorstLevel == 1000     \* the 1 of `?? 1`, { echoLevel: 1 } and { noise: 1 }

\* A plausible slip: the noise bound taken as inclusive.
isTestPassedInclusiveNoise(a) ==
  LET r == a.results
      sampleRate == IF r.sampleRate = None THEN 0 ELSE r.sampleRate[1]
      passed == IF r.echoTest = None THEN FALSE ELSE r.echoTest[1].passed
      level == IF r.microphoneTest = None THEN 0 ELSE r.microphoneTest[1].level
      noise == IF r.microphoneTest = None THEN WorstLevel
               ELSE r.microphoneTest[1].noise
  IN /\ sampleRate >= a.config.targetSampleRate
     /\ passed
     /\ level >= a.config.minMicLevel
     /\ noise <= a.config.maxBackgroundNoise

isTestPassed(a) ==
  LET r == a.results
      sampleRate == IF r.sampleRate = None THEN 0 ELSE r.sampleRate[1]
      passed == IF r.echoTest = None THEN FALSE ELSE r.echoTest[1].passed
      level == IF r.microphoneTest = None THEN 0 ELSE r.microphoneTest[1].level
      noise == IF r.microphoneTest = None THEN WorstLevel
               ELSE r.microphoneTest[1].noise
  IN /\ sampleRate >= a.config.targetSampleRate
     /\ passed
     /\ level >= a.config.minMicLevel
     /\ noise < a.config.maxBackgroundNoise

\* A plausible slip: the echo-test result is not asked for.
isCompleteWithoutEchoTest(a) ==
  /\ a.results.sampleRate # None
  /\ a.results.sampleRate[1] # 0
  /\ a.results.microphoneTest # None

\* Truthiness of the three sub-results (a sample rate of 0 is falsy).
isComplete(a) ==
  /\ a.results.sampleRate # None
  /\ a.results.sampleRate[1] # 0
  /\ a.results.echoTest # None
  /\ a.results.microphoneTest # None

\* The result object getCompleteResults builds once isComplete holds; each
\* sub-result is what this.results holds (None when it was never recorded: the
\* `!` of results.sampleRate! checks nothing).  Its timestamp is left out.
getCompleteResults(a) ==
  [ sampleRate |-> a.results.sampleRate,
    echoTest |-> a.results.echoTest,
    microphoneTest |-> a.results.microphoneTest,
    overallPassed |-> isTestPassed(a) ]

\* An exception leaves a stage method or getCompleteResults: runAllTests runs
\* its finally block, a stage called on its own just rejects.
throw(w, c, error) ==
  IF w.calls[c].kind = "runAllTests"
  THEN settle(cleanup(w), c, "rejected", error, None)
  ELSE settle(w, c, "rejected", error, None)

\* A plausible slip: the result is returned without the cleanup.
finishAllWithoutCleanup(w, c) ==
  LET overallPassed == isTestPassed(w.ac)
      w1 == emitInfo(w, c, "complete", RatOf(100), Some(overallPassed))
  IN IF ~isComplete(w1.ac)
     THEN throw(w1, c, "Audio check is not complete")
     ELSE settle(w1, c, "resolved", "", Some(getCompleteResults(w1.ac)))

\* runAllTests after the three stages (lines 296-306).
finishAll(w, c) ==
  LET overallPassed == isTestPassed(w.ac)
      w1 == emitInfo(w, c, "complete", RatOf(100), Some(overallPassed))
  IN IF ~isComplete(w1.ac)
     THEN throw(w1, c, "Audio check is not complete")
     ELSE settle(cleanup(w1), c, "resolved", "", Some(getCompleteResults(w1.ac)))

\* this.volMeterWorklet.port.onmessage = handler, when there is a meter
setHandler(w, kind, c) ==
  IF w.ac.volMeterWorklet = Null THEN w
  ELSE [w EXCEPT !.dev.meters[w.ac.volMeterWorklet].handler =
                    [kind |-> kind, call |-> c]]

(***************************************************************************)
(* AudioCheck.runMicTest                                                   *)
(***************************************************************************)
RECURSIVE Insert(_, _)
Insert(x, s) ==
  IF s = << >> THEN <<x>>
  ELSE IF x <= Head(s) THEN <<x>> \o s
  ELSE <<Head(s)>> \o Insert(x, Tail(s))

RECURSIVE SortAscending(_)
SortAscending(s) ==
  IF s = << >> THEN << >> ELSE Insert(Head(s), SortAscending(Tail(s)))

\* A plausible slip: an absent entry counts as the worst level, as an absent
\* noise does in isTestPassed.
PercentileOrWorst(sortedVolumes, percent) ==
  LET index == (Len(sortedVolumes) * percent) \div 100
  IN IF index + 1 <= Len(sortedVolumes) THEN sortedVolumes[index + 1]
     ELSE WorstLevel

\* sortedVolumes[Math.floor(sortedVolumes.length * percent / 100)] || 0
Percentile(sortedVolumes, percent) ==
  LET index == (Len(sortedVolumes) * percent) \div 100
  IN IF index + 1 <= Len(sortedVolumes) THEN sortedVolumes[index + 1] ELSE 0

micReturn(w, c, value) ==
  IF w.calls[c].kind = "runMicTest"
  THEN settle(w, c, "resolved", "", Some(value))
  ELSE finishAll(w, c)

micCatch(w, c) ==
  LET w1 == emitProgress(w, c, "error", RatOf(0))
  IN micReturn([w1 EXCEPT !.ac.isRunning = FALSE,
                          !.calls[c].failed = @ \cup {"mic-test"}], c,
               [level |-> 0, noise |-> WorstLevel])

\* A plausible slip: the percentiles are read off the history as it arrived.
micFinishUnsorted(w, c, fail) ==
  IF fail THEN micCatch(w, c)
  ELSE LET sortedVolumes == w.ac.volumeHistory
           value == [level |-> Percentile(sortedVolumes, 95),
                     noise |-> Percentile(sortedVolumes, 10)]
           w1 == [w EXCEPT !.ac.results.microphoneTest = Some(value)]
           w2 == emitProgress(w1, c, "mic-test", RatOf(100))
       IN micReturn([w2 EXCEPT !.ac.isRunning = FALSE], c, value)

micFinish(w, c, fail) ==
  IF fail THEN micCatch(w, c)
  ELSE LET sortedVolumes == SortAscending(w.ac.volumeHistory)
           value == [level |-> Percentile(sortedVolumes, 95),
                     noise |-> Percentile(sortedVolumes, 10)]
           w1 == [w EXCEPT !.ac.results.microphoneTest = Some(value)]
           w2 == emitProgress(w1, c, "mic-test", RatOf(100))
       IN micReturn([w2 EXCEPT !.ac.isRunning = FALSE], c, value)

\* One pass of the tick loop: emit and sleep a second, or leave the loop.
micLoop(w, c, i, fail) ==
  LET duration == w.ac.config.micTestDuration
  IN IF i < duration
     THEN at(emitProgress([w EXCEPT !.calls[c].i = i], c, "mic-test",
                          Rat(90 * i, duration)),
             c, "micTick")
     ELSE micFinish(w, c, fail)

runMicTest(w, c, fail) ==
  IF w.ac.audioContext = Null \/ w.ac.source = Null
  THEN throw(w, c, "AudioCheck not initialized")
  ELSE LET w1 == emitProgress([w EXCEPT !.ac.isRunning = TRUE], c,
                              "mic-test", RatOf(0))
           w2 == setHandler([w1 EXCEPT !.ac.volumeHistory = << >>], "mic", c)
       IN micLoop(w2, c, 0, fail)

(***************************************************************************)
(* AudioCheck.runEchoTest, measureBackgroundNoise                          *)
(***************************************************************************)
\* The mic test that follows in runAllTests cannot throw in the step that
\* starts it unless its duration is 0.
echoReturn(w, c, value) ==
  IF w.calls[c].kind = "runEchoTest"
  THEN settle(w, c, "resolved", "", Some(value))
  ELSE runMicTest([w EXCEPT !.calls[c].echoVolumes = << >>,
                            !.calls[c].noiseVolumes = << >>], c, FALSE)

\* A plausible slip: the catch block reports the error and rethrows it.
echoCatchRethrows(w, c) ==
  throw(emitProgress([w EXCEPT !.ac.isRunning = FALSE,
                               !.calls[c].failed = @ \cup {"echo-test"}],
                     c, "error", RatOf(0)),
        c, "Echo test failed")

echoCatch(w, c) ==
  LET w1 == emitProgress(w, c, "error", RatOf(0))
  IN echoReturn([w1 EXCEPT !.ac.isRunning = FALSE,
                           !.calls[c].failed = @ \cup {"echo-test"}], c,
                [passed |-> FALSE, echoLevel |-> RatOf(WorstLevel)])

\* A plausible slip: the level is not clamped at 0.
echoFinishUnclamped(w, c, fail) ==
  IF w.ac.oscillator = Null \/ w.ac.gainNode = Null \/ fail
  THEN echoCatch(w, c)
  ELSE LET avgEchoVolume == Average(w.calls[c].echoVolumes)
           echoLevel == RatSub(avgEchoVolume, w.ac.backgroundNoiseLevel)
           echoPassed == RatLess(echoLevel, RatOf(w.ac.config.echoThreshold))
           value == [passed |-> echoPassed, echoLevel |-> echoLevel]
           w1 == [w EXCEPT !.dev.playing = @ \ {w.ac.oscillator},
                           !.ac.oscillator = Null,
                           !.ac.gainNode = Null,
                           !.ac.results.echoTest = Some(value)]
           w2 == emitProgress(w1, c, "echo-test", RatOf(100))
       IN echoReturn([w2 EXCEPT !.ac.isRunning = FALSE], c, value)

\* From this.oscillator.stop() to the return (lines 196-218); `fail`: a
\* browser call of the block throws.
echoFinish(w, c, fail) ==
  IF w.ac.oscillator = Null \/ w.ac.gainNode = Null \/ fail
  THEN echoCatch(w, c)
  ELSE LET avgEchoVolume == Average(w.calls[c].echoVolumes)
           echoLevel == RatMax(RatOf(0),
                               RatSub(avgEchoVolume, w.ac.backgroundNoiseLevel))
           echoPassed == RatLess(echoLevel, RatOf(w.ac.config.echoThreshold))
           value == [passed |-> echoPassed, echoLevel |-> echoLevel]
           w1 == [w EXCEPT !.dev.playing = @ \ {w.ac.oscillator},
                           !.ac.oscillator = Null,
                           !.ac.gainNode = Null,
                           !.ac.results.echoTest = Some(value)]
           w2 == emitProgress(w1, c, "echo-test", RatOf(100))
       IN echoReturn([w2 EXCEPT !.ac.isRunning = FALSE], c, value)

\* A plausible slip: the ticks of the echo test count from 0, not from 30.
echoLoopFromZero(w, c, i, fail) ==
  LET duration == w.ac.config.echoTestDuration
  IN IF i < duration
     THEN at(emitProgress([w EXCEPT !.calls[c].i = i], c, "echo-test",
                          Rat(60 * i, duration)),
             c, "echoTick")
     ELSE echoFinish(w, c, fail)

echoLoop(w, c, i, fail) ==
  LET duration == w.ac.config.echoTestDuration
  IN IF i < duration
     THEN at(emitProgress([w EXCEPT !.calls[c].i = i], c, "echo-test",
                          Rat(30 * duration + 60 * i, duration)),
             c, "echoTick")
     ELSE echoFinish(w, c, fail)

\* runEchoTest once measureBackgroundNoise's second is over (lines 389-192);
\* `fail`: creating or starting the tone throws.
echoTone(w, c, fail) ==
  LET w1 == [w EXCEPT !.ac.backgroundNoiseLevel =
                         Average(w.calls[c].noiseVolumes)]
  IN IF w1.ac.audioContext = Null \/ fail
     THEN echoCatch(w1, c)
     ELSE LET w2 == setHandler([w1 EXCEPT !.ac.oscillator = c,
                                          !.ac.gainNode = c], "echo", c)
              w3 == emitProgress([w2 EXCEPT !.dev.playing = @ \cup {c}], c,
                                 "echo-test", RatOf(30))
          IN echoLoop(w3, c, 0, FALSE)

runEchoTest(w, c) ==
  IF w.ac.audioContext = Null \/ w.ac.source = Null
  THEN throw(w, c, "AudioCheck not initialized")
  ELSE LET w1 == emitProgress([w EXCEPT !.ac.isRunning = TRUE], c,
                              "echo-test", RatOf(0))
           w2 == emitProgress(w1, c, "echo-test", RatOf(10))
       IN at(setHandler(w2, "noise", c), c, "awaitNoise")

(***************************************************************************)
(* AudioCheck.getSampleRate, getMaxSupportedSampleRate                     *)
(***************************************************************************)
testRates == <<96000, 88200, 48000, 44100, 24000, 22050, 16000, 8000>>

\* What `new AudioContext({ sampleRate: rate })` does on a platform, per
\* candidate rate: the rate the context really runs at, or 0 when the
\* constructor throws.  A platform honouring only 48000 and 16000 (running
\* the other requests at 48000), one that throws for every candidate, and one
\* that honours every candidate.
ProbePlatforms ==
  { [rate \in {testRates[k] : k \in DOMAIN testRates} |->
       IF rate \in {48000, 16000} THEN rate ELSE 48000],
    [rate \in {testRates[k] : k \in DOMAIN testRates} |-> 0],
    [rate \in {testRates[k] : k \in DOMAIN testRates} |-> rate] }

RECURSIVE probeFrom(_, _, _)
probeFrom(k, realized, fallback) ==
  IF k > Len(testRates) THEN fallback
  ELSE IF realized[testRates[k]] # 0 /\ Abs(realized[testRates[k]] - testRates[k]) < 1
       THEN testRates[k]
       ELSE probeFrom(k + 1, realized, fallback)

\* A plausible slip: the candidates are tried from the lowest rate up.
getLowestSupportedSampleRate(a, realized) ==
  LET honored == {k \in DOMAIN testRates :
                    /\ realized[testRates[k]] # 0
                    /\ Abs(realized[testRates[k]] - testRates[k]) < 1}
  IN IF honored = {}
     THEN IF a.audioContext # Null THEN a.audioContext ELSE 24000
     ELSE testRates[CHOOSE k \in honored : \A j \in honored : j <= k]

\* fallback: this.audioContext?.sampleRate || 24000
getMaxSupportedSampleRate(a, realized) ==
  probeFrom(1, realized, IF a.audioContext # Null THEN a.audioContext ELSE 24000)

srReturn(w, c, value) ==
  IF w.calls[c].kind = "getSampleRate"
  THEN settle(w, c, "resolved", "", Some(value))
  ELSE runEchoTest([w EXCEPT !.calls[c].sampleRate = 0], c)

\* A plausible slip: the probe's answer is recorded and returned.
srFinishReturnsMax(w, c, realized) ==
  LET maxSupportedRate == getMaxSupportedSampleRate(w.ac, realized)
      w1 == emitInfo(w, c, "sample-rate", RatOf(100), Some(maxSupportedRate))
  IN srReturn([w1 EXCEPT !.ac.isRunning = FALSE,
                         !.ac.results.sampleRate = Some(maxSupportedRate)],
              c, maxSupportedRate)

\* getSampleRate once the probe has returned (lines 107-113).  The probe's
\* answer goes into the event's message only; it is kept as the event's info.
srFinish(w, c, realized) ==
  LET maxSupportedRate == getMaxSupportedSampleRate(w.ac, realized)
      w1 == emitInfo(w, c, "sample-rate", RatOf(100), Some(maxSupportedRate))
  IN srReturn([w1 EXCEPT !.ac.isRunning = FALSE], c, w.calls[c].sampleRate)

getSampleRate(w, c) ==
  IF w.ac.audioContext = Null
  THEN throw(w, c, "AudioCheck not initialized")
  ELSE LET w1 == emitProgress([w EXCEPT !.ac.isRunning = TRUE], c,
                              "sample-rate", RatOf(0))
           sampleRate == w.ac.audioContext
       IN at([w1 EXCEPT !.calls[c].sampleRate = sampleRate,
                        !.ac.results.sampleRate = Some(sampleRate)],
             c, "awaitProbe")

(***************************************************************************)
(* AudioCheck.init, setupVolumeMeter                                       *)
(***************************************************************************)
initReturn(w, c) ==
  IF w.calls[c].kind = "init"
  THEN settle(w, c, "resolved", "", None)
  ELSE getSampleRate(w, c)

\* init's catch block: report, clean up, rethrow.  runAllTests awaits init
\* outside its try, so the rejection is runAllTests' own.
initCatch(w, c, error) ==
  settle(cleanup(emitProgress(w, c, "error", RatOf(0))), c, "rejected", error, None)

\* From the start of init to the await of audioContext() (lines 41-62).
init(w, c) ==
  IF w.ac.isRunning
  THEN settle(w, c, "rejected", "AudioCheck is already running", None)
  ELSE LET w1 == emitProgress([w EXCEPT !.ac.isRunning = TRUE], c,
                              "init", RatOf(0))
       IN CASE w.dev.platform = "noGetUserMedia" ->
                 initCatch(w1, c, "getUserMedia not supported")
            [] w.dev.platform = "noWebAudio" ->
                 initCatch(w1, c, "Web Audio API not supported")
            [] OTHER -> at(w1, c, "awaitCtx")

\* audioContext() resolved with a context running at `rate` (lines 59-73).
initGotContext(w, c, rate) ==
  at([w EXCEPT !.ac.audioContext = rate], c, "awaitGUM")

\* getUserMedia resolved with a new stream (lines 65-78 and 363-369);
\* createMediaStreamSource is called on this.audioContext and throws a
\* TypeError when that is null.
initGotStream(w, c) ==
  LET s == Len(w.dev.streams) + 1
      w1 == [w EXCEPT !.dev.streams = Append(@, "live"), !.ac.stream = s,
                      !.calls[c].obtained = s]
  IN IF w1.ac.audioContext = Null
     THEN initCatch(w1, c, "TypeError")
     ELSE at([w1 EXCEPT !.ac.source = s], c, "awaitModule")

\* addModule resolved (lines 370-372 and 80-81): the AudioWorkletNode
\* constructor throws without a context, this.source.connect without a source.
initGotModule(w, c) ==
  IF w.ac.audioContext = Null
  THEN initCatch(w, c, "TypeError")
  ELSE LET m == Len(w.dev.meters) + 1
           w1 == [w EXCEPT
                    !.dev.meters = Append(@, [feed |-> Null, disconnected |-> FALSE,
                                              handler |-> NoHandler]),
                    !.ac.volMeterWorklet = m]
       IN IF w1.ac.source = Null
          THEN initCatch(w1, c, "TypeError")
          ELSE LET w2 == [w1 EXCEPT !.dev.connected = @ \cup {w1.ac.source},
                                    !.dev.meters[m].feed = w1.ac.source]
                   w3 == emitProgress(w2, c, "init", RatOf(100))
               IN initReturn([w3 EXCEPT !.ac.isRunning = FALSE], c)

(***************************************************************************)
(* AudioRecorder                                                           *)
(***************************************************************************)
\* new AudioRecorder(): sampleRate defaults to 16000.
AudioRecorder ==
  [ stream |-> Null,
    audioContext |-> Null,
    source |-> Null,            \* a source node has the id of its stream
    recording |-> FALSE,
    recordingWorklet |-> Null,
    vuWorklet |-> Null,
    sampleRate |-> 16000,
    starting |-> Null ]         \* Null, or the promise of the start() with that id

\* streams[s]: the tracks of the s-th stream getUserMedia returned;
\* connected: the source nodes with an outgoing connection; worklets[k]: the
\* source feeding the k-th AudioWorkletNode and the event its port's
\* onmessage handler emits; port: the messages the recorder worklets have
\* posted and the event loop has not delivered yet, oldest first.
\* History: produced, the sample buffers posted so far; emitted, the
\* payloads of the 'data' events emitted so far; halted, handleStop has run
\* and start() has not been called since.
Microphone(platform) ==
  [ platform |-> platform,
    streams |-> << >>,
    connected |-> {},
    worklets |-> << >>,
    port |-> << >>,
    produced |-> << >>,
    emitted |-> << >>,
    halted |-> FALSE ]

Recorder == [rec |-> rec, mic |-> mic, starts |-> starts, out |-> << >>]

NewStart ==
  [ pc |-> "awaitGUM",
    thens |-> 0,          \* handleStop callbacks registered on its promise
    obtained |-> Null ]   \* history: the stream getUserMedia gave it

\* A plausible slip: handleStop stops the tracks and keeps the stream.
handleStopKeepsStream(r) ==
  [r EXCEPT
     !.mic.connected = @ \ {r.rec.source},
     !.mic.streams = IF r.rec.stream # Null
                     THEN [@ EXCEPT ![r.rec.stream] = "stopped"]
                     ELSE @,
     !.rec.recordingWorklet = Null,
     !.rec.vuWorklet = Null,
     !.rec.recording = FALSE,
     !.mic.halted = TRUE]

\* stop()'s handleStop (lines 110-119).
handleStop(r) ==
  [r EXCEPT
     !.mic.connected = @ \ {r.rec.source},
     !.mic.streams = IF r.rec.stream # Null
                     THEN [@ EXCEPT ![r.rec.stream] = "stopped"]
                     ELSE @,
     !.rec.stream = Null,
     !.rec.recordingWorklet = Null,
     !.rec.vuWorklet = Null,
     !.rec.recording = FALSE,
     !.mic.halted = TRUE]

RECURSIVE runThens(_, _)
runThens(r, n) == IF n = 0 THEN r ELSE runThens(handleStop(r), n - 1)

\* stop() (lines 107-125): with a start in flight, this.starting.then(handleStop).
stop(r) ==
  IF r.rec.starting # Null
  THEN [r EXCEPT !.starts[r.rec.starting].thens = @ + 1]
  ELSE handleStop(r)

startSettles(r, c, outcome, error) ==
  [r EXCEPT
     !.starts = [x \in DOMAIN r.starts \ {c} |-> r.starts[x]],
     !.out = Append(@, [type |-> "settled", call |-> c, kind |-> "start",
                        outcome |-> outcome, error |-> error,
                        thens |-> r.starts[c].thens,
                        obtained |-> r.starts[c].obtained])]

\* The executor's catch block (lines 97-101): reject, this.starting = null.
\* The callbacks stop() registered with then(handleStop) have no rejection
\* handler: they do not run.
startCatch(r, c, error) ==
  startSettles([r EXCEPT !.rec.starting = Null], c, "rejected", error)

\* start() to its first await (lines 34-43 and 104).
start(r, c) ==
  IF r.mic.platform = "noGetUserMedia"
  THEN [r EXCEPT !.out = Append(@, [type |-> "settled", call |-> c,
                                    kind |-> "start", outcome |-> "rejected",
                                    error |-> "Could not request user media",
                                    thens |-> 0, obtained |-> Null]),
                 !.mic.halted = FALSE]
  ELSE [r EXCEPT !.starts = @ @@ (c :> NewStart), !.rec.starting = c,
                 !.mic.halted = FALSE]

\* getUserMedia resolved (lines 43-46).
startGotStream(r, c) ==
  LET s == Len(r.mic.streams) + 1
  IN [r EXCEPT !.mic.streams = Append(@, "live"),
               !.rec.stream = s,
               !.starts[c].obtained = s,
               !.starts[c].pc = "awaitCtx"]

\* audioContext() resolved (lines 46-57); createMediaStreamSource throws a
\* TypeError when this.stream is undefined.
startGotContext(r, c) ==
  IF r.rec.stream = Null
  THEN startCatch([r EXCEPT !.rec.audioContext = r.rec.sampleRate], c, "TypeError")
  ELSE [r EXCEPT !.rec.audioContext = r.rec.sampleRate,
                 !.rec.source = r.rec.stream,
                 !.starts[c].pc = "awaitRecorderModule"]

\* The recorder worklet's module is added (lines 58-82).
startGotRecorderModule(r, c) ==
  LET k == Len(r.mic.worklets) + 1
  IN [r EXCEPT !.mic.worklets = Append(@, [feed |-> r.rec.source,
                                           emits |-> "data"]),
               !.mic.connected = @ \cup {r.rec.source},
               !.rec.recordingWorklet = k,
               !.starts[c].pc = "awaitMeterModule"]

\* The meter worklet's module is added (lines 83-96): the promise resolves,
\* this.starting = null, and then the callbacks registered on it run.
startGotMeterModule(r, c) ==
  LET k == Len(r.mic.worklets) + 1
      r1 == [r EXCEPT !.mic.worklets = Append(@, [feed |-> r.rec.source,
                                                  emits |-> "volume"]),
                      !.mic.connected = @ \cup {r.rec.source},
                      !.rec.vuWorklet = k,
                      !.rec.recording = TRUE,
                      !.rec.starting = Null]
  IN runThens(startSettles(r1, c, "resolved", ""), r.starts[c].thens)

\* window.btoa on a binary string, given as its character codes.  A base64
\* character is written as its place 0..63 in the alphabet A-Z a-z 0-9 + /,
\* the padding character = as 64.
Pad == 64

RECURSIVE btoa(_)
btoa(binary) ==
  LET len == Len(binary)
      a == binary[1]
      b == binary[2]
      c == binary[3]
  IN IF len = 0 THEN << >>
     ELSE IF len = 1 THEN << a \div 4, (a % 4) * 16, Pad, Pad >>
     ELSE IF len = 2
          THEN << a \div 4, (a % 4) * 16 + b \div 16, (b % 16) * 4, Pad >>
     ELSE << a \div 4, (a % 4) * 16 + b \div 16, (b % 16) * 4 + c \div 64,
             c % 64 >> \o btoa(SubSeq(binary, 4, len))

\* arrayBufferToBase64 (lines 8-16): one character per byte, then btoa.
arrayBufferToBase64(buffer) ==
  LET bytes == buffer
      binary == [i \in 1..Len(bytes) |-> bytes[i]]   \* String.fromCharCode
  IN btoa(binary)

\* A plausible slip: the handler does not look whether the message carries
\* a buffer, and encodes the empty buffer when it does not.
onmessageWithoutCheck(r, ev) ==
  LET arrayBufferString ==
        arrayBufferToBase64(IF ev.int16arrayBuffer = None THEN << >>
                            ELSE ev.int16arrayBuffer[1])
  IN [r EXCEPT !.out = Append(@, [type |-> "data", data |-> arrayBufferString]),
               !.mic.emitted = Append(@, arrayBufferString)]

\* recordingWorklet.port.onmessage (lines 66-74).
onmessage(r, ev) ==
  LET arrayBuffer == ev.int16arrayBuffer
  IN IF arrayBuffer # None
     THEN LET arrayBufferString == arrayBufferToBase64(arrayBuffer[1])
          IN [r EXCEPT !.out = Append(@, [type |-> "data",
                                          data |-> arrayBufferString]),
                       !.mic.emitted = Append(@, arrayBufferString)]
     ELSE r

(***************************************************************************)
(* useLiveAPI and the playback streamer                                    *)
(***************************************************************************)
\* useLiveAPI before its effects have run (lines 24-29): no streamer yet.
\* now: the output context's clock, in sample frames; scheduled: the chunks
\* the streamer has scheduled and not cancelled, in the order scheduled.
\* History: received, the byte lengths of the 'audio' events so far;
\* interrupts, for every 'interrupted' event the clock and the number of
\* chunks received before it; heard, the frames rendered: [t, chunk].
useLiveAPI ==
  [ audioStreamer |-> FALSE,
    now |-> 0,
    scheduled |-> << >>,
    received |-> << >>,
    interrupts |-> << >>,
    heard |-> {} ]

\* The end of the chunk scheduled last, 0 when there is none.
scheduledUntil(l) ==
  IF l.scheduled = << >> THEN 0
  ELSE l.scheduled[Len(l.scheduled)].start + l.scheduled[Len(l.scheduled)].frames

\* A plausible slip: a chunk is scheduled at the clock's time when it
\* arrives, as with a wall-clock timer.
addPCM16AtCurrentTime(l, chunk, byteLength) ==
  [l EXCEPT !.scheduled =
     Append(@, [chunk |-> chunk, start |-> l.now, frames |-> byteLength \div 2,
                underrun |-> FALSE])]

\* AudioStreamer.addPCM16, the spec's enqueue(chunk): 16-bit samples, two
\* bytes a frame; the chunk begins when the chunk scheduled before it ends,
\* or now when that end has passed (the queue has underrun).
addPCM16(l, chunk, byteLength) ==
  LET until == scheduledUntil(l)
      underrun == l.scheduled # << >> /\ until < l.now
  IN [l EXCEPT !.scheduled =
        Append(@, [chunk |-> chunk,
                   start |-> IF until < l.now THEN l.now ELSE until,
                   frames |-> byteLength \div 2,
                   underrun |-> underrun])]

\* AudioStreamer.stop, the spec's flush(): every chunk not played to its end
\* is cancelled and the output is silent at once.
streamerStop(l) == [l EXCEPT !.scheduled = << >>]

\* onAudio (lines 62-63): audioStreamerRef.current?.addPCM16(...).
onAudio(l, byteLength) ==
  LET l1 == [l EXCEPT !.received = Append(@, byteLength)]
  IN IF l.audioStreamer THEN addPCM16(l1, Len(l1.received), byteLength) ELSE l1

\* A plausible slip: the handler is not registered for 'interrupted'.
stopAudioStreamerUnwired(l) ==
  [l EXCEPT !.interrupts = Append(@, [at |-> l.now, upto |-> Len(l.received)])]

\* stopAudioStreamer (line 60): audioStreamerRef.current?.stop().
stopAudioStreamer(l) ==
  LET l1 == [l EXCEPT !.interrupts =
                        Append(@, [at |-> l.now, upto |-> Len(l.received)])]
  IN IF l.audioStreamer THEN streamerStop(l1) ELSE l1

(***************************************************************************)
(* App and TopicPicker                                                     *)
(***************************************************************************)
\* App (part_005 lines 137-138) with its TopicPicker mounted (part_003 line
\* 416): picked is the picker's selectedTopics.  History: onContinue, the
\* calls of the onContinue prop.
App ==
  [ currentStep |-> "topic-selection",
    selectedTopics |-> << >>,
    picked |-> << >>,
    onContinue |-> 0 ]

includes(prev, topic) == \E i \in DOMAIN prev : prev[i] = topic

\* prev.filter(t => t !== topic)
RECURSIVE without(_, _)
without(prev, topic) ==
  IF prev = << >> THEN << >>
  ELSE (IF Head(prev) = topic THEN << >> ELSE << Head(prev) >>)
         \o without(Tail(prev), topic)

\* A plausible slip: no limit on the number of topics.
handleTopicToggleUnlimited(prev, topic) ==
  IF includes(prev, topic) THEN without(prev, topic) ELSE Append(prev, topic)

\* handleTopicToggle's updater (part_003 lines 418-430).
handleTopicToggle(prev, topic) ==
  IF includes(prev, topic)
  THEN without(prev, topic)
  ELSE IF Len(prev) >= 5 THEN prev ELSE Append(prev, topic)

\* handleContinue (part_003 lines 432-437) with App's handleTopicsSelected
\* (part_005 lines 143-150) as onTopicsSelected.
handleContinue(a) ==
  IF Len(a.picked) > 0
  THEN [a EXCEPT !.selectedTopics = a.picked,
                 !.currentStep = "conversation",
                 !.onContinue = @ + 1]
  ELSE a

(***************************************************************************)
(* The harness as a state machine                                          *)
(***************************************************************************)
\* A caller that awaits every call before it makes the next one.
Awaiting == [made |-> 0, limit |-> MaxCalls, overlap |-> FALSE]
\* A caller that makes calls while earlier ones are in flight.
Overlapping == [made |-> 0, limit |-> MaxOverlapping, overlap |-> TRUE]

\* A recorder on a platform, not started.
RecorderOn(platform) ==
  /\ rec = AudioRecorder
  /\ mic = Microphone(platform)
  /\ starts = << >>
  /\ tray = [starts |-> 0, stops |-> 0, listening |-> FALSE, sent |-> << >>,
             repeated |-> 0, connected |-> FALSE, muted |-> FALSE,
             mounted |-> TRUE]
  /\ live = useLiveAPI
  /\ app = App

InitWith(how) ==
  \E config \in ConfigInputs, platform \in PlatformKinds :
    /\ ac = constructor(config)
    /\ dev = Browser(platform)
    /\ calls = << >>
    /\ caller = how
    /\ out = << >>
    /\ RecorderOn("ok")

Init == InitWith(Awaiting)

\* A plausible slip: the view starts the session after every run that
\* returned a result, whatever its verdict.
RECURSIVE hookHearsIgnoresVerdict(_, _)
hookHearsIgnoresVerdict(h, outs) ==
  IF outs = << >> THEN h
  ELSE IF "view" \notin DOMAIN h THEN h
  ELSE IF h.view # "audio-check" THEN h
  ELSE LET e == Head(outs)
           h1 == IF e.type = "progress"
                 THEN IF e.stage = "error"
                      THEN [h EXCEPT !.error = TRUE, !.isRunning = FALSE]
                      ELSE IF e.stage = "complete"
                           THEN [h EXCEPT !.error = FALSE, !.isRunning = FALSE]
                           ELSE h
                 ELSE IF e.kind = "init"
                 THEN IF e.outcome = "resolved"
                      THEN [h EXCEPT !.isInitialized = TRUE, !.error = FALSE]
                      ELSE [h EXCEPT !.isInitialized = FALSE, !.error = TRUE]
                 ELSE IF e.kind = "runAllTests"
                 THEN IF e.outcome = "resolved"
                      THEN [h EXCEPT !.results = e.value,
                                     !.passed = @ \cup {"auto"}]
                      ELSE [h EXCEPT !.error = TRUE, !.isRunning = FALSE]
                 ELSE h
       IN hookHearsIgnoresVerdict(h1, Tail(outs))

\* What useAudioCheck and AudioCheckView do with the events and settlements
\* of a step, in their order: handleProgress (hook lines 47-58), the
\* continuation of the hook's init (lines 132-140), of its runAllTests
\* (lines 75-84) and of the view's handleRunAllTests (view lines 49-57).  A
\* caller that is no mounted view hears nothing.
RECURSIVE hookHears(_, _)
hookHears(h, outs) ==
  IF outs = << >> THEN h
  ELSE IF "view" \notin DOMAIN h THEN h
  ELSE IF h.view # "audio-check" THEN h
  ELSE LET e == Head(outs)
           h1 == IF e.type = "progress"
                 THEN IF e.stage = "error"
                      THEN [h EXCEPT !.error = TRUE, !.isRunning = FALSE]
                      ELSE IF e.stage = "complete"
                           THEN [h EXCEPT !.error = FALSE, !.isRunning = FALSE]
                           ELSE h
                 ELSE IF e.kind = "init"
                 THEN IF e.outcome = "resolved"
                      THEN [h EXCEPT !.isInitialized = TRUE, !.error = FALSE]
                      ELSE [h EXCEPT !.isInitialized = FALSE, !.error = TRUE]
                 ELSE IF e.kind = "runAllTests"
                 THEN IF e.outcome = "resolved"
                      THEN [h EXCEPT !.results = e.value,
                                     !.passed = IF e.value[1].overallPassed
                                                THEN @ \cup {"auto"} ELSE @]
                      ELSE [h EXCEPT !.error = TRUE, !.isRunning = FALSE]
                 ELSE h
       IN hookHears(h1, Tail(outs))

Becomes(w) ==
  /\ ac' = w.ac
  /\ dev' = w.dev
  /\ calls' = w.calls
  /\ out' = w.out
  /\ caller' = hookHears(caller, w.out)
  /\ UNCHANGED recVars

\* A new call: its id, and the world with its record added.
NextCall == caller.made + 1
Called(kind) == [World EXCEPT !.calls = @ @@ (NextCall :> NewCall(kind))]

MayCall ==
  /\ caller.made < caller.limit
  /\ caller.overlap \/ DOMAIN calls = {}

Makes(w) ==
  /\ ac' = w.ac
  /\ dev' = w.dev
  /\ calls' = w.calls
  /\ out' = w.out
  /\ caller' = hookHears([caller EXCEPT !.made = @ + 1], w.out)
  /\ UNCHANGED recVars

Pending(pc) == {c \in DOMAIN calls : calls[c].pc = pc}

\* The caller invokes a method; it runs to its first await.
CallInit ==
  /\ MayCall
  /\ Makes(init(Called("init"), NextCall))

CallRunAllTests ==
  /\ MayCall
  /\ Makes(init(Called("runAllTests"), NextCall))

CallGetSampleRate ==
  /\ MayCall
  /\ Makes(getSampleRate(Called("getSampleRate"), NextCall))

CallRunEchoTest ==
  /\ MayCall
  /\ Makes(runEchoTest(Called("runEchoTest"), NextCall))

CallRunMicTest ==
  /\ MayCall
  /\ Makes(runMicTest(Called("runMicTest"), NextCall, FALSE))

\* cleanup() may be called at any time, also by a caller that awaits its
\* calls (the hook calls it when the component unmounts).
CallCleanup ==
  /\ TRUE
  /\ Becomes(cleanup([World EXCEPT
                        !.calls = [c \in DOMAIN calls |->
                                     [calls[c] EXCEPT !.cleaned = TRUE]]]))

\* The browser settles what a call awaits; the call runs to its next await.
ContextResolved ==
  \E c \in Pending("awaitCtx"), rate \in Rates :
    Becomes(initGotContext(World, c, rate))

ContextRejected ==
  \E c \in Pending("awaitCtx") :
    Becomes(initCatch(World, c, "AudioContext failed"))

StreamGranted ==
  \E c \in Pending("awaitGUM") : Becomes(initGotStream(World, c))

StreamDenied ==
  \E c \in Pending("awaitGUM") :
    Becomes(initCatch(World, c, "Permission denied"))

ModuleAdded ==
  \E c \in Pending("awaitModule") : Becomes(initGotModule(World, c))

ModuleFailed ==
  \E c \in Pending("awaitModule") :
    Becomes(initCatch(World, c, "addModule failed"))

ProbeDone ==
  \E c \in Pending("awaitProbe"), realized \in ProbePlatforms :
    Becomes(srFinish(World, c, realized))

NoiseMeasured ==
  \E c \in Pending("awaitNoise"), fail \in BOOLEAN :
    Becomes(echoTone(World, c, fail))

EchoTick ==
  \E c \in Pending("echoTick"), fail \in BOOLEAN :
    Becomes(echoLoop(World, c, calls[c].i + 1, fail))

MicTick ==
  \E c \in Pending("micTick"), fail \in BOOLEAN :
    Becomes(micLoop(World, c, calls[c].i + 1, fail))

\* The meter worklet m posts a level; the handler on its port stores it.  A
\* meter posts while a connected source feeds it.  A handler whose array is
\* no longer read (its measurement is over) changes nothing.
MeterMessage ==
  \E m \in DOMAIN dev.meters, volume \in Levels :
    LET h == dev.meters[m].handler IN
    /\ dev.meters[m].feed \in dev.connected
    /\ dev.posted < dev.budget
    /\ dev' = [dev EXCEPT !.posted = @ + 1]
    /\ out' = << >>
    /\ UNCHANGED <<caller, recVars>>
    /\ \/ /\ h.kind = "noise"
          /\ h.call \in Pending("awaitNoise")
          /\ calls' = [calls EXCEPT ![h.call].noiseVolumes = Append(@, volume)]
          /\ UNCHANGED ac
       \/ /\ h.kind = "echo"
          /\ h.call \in Pending("echoTick")
          /\ calls' = [calls EXCEPT ![h.call].echoVolumes = Append(@, volume)]
          /\ UNCHANGED ac
       \/ /\ h.kind = "mic"
          /\ ac' = [ac EXCEPT !.volumeHistory = Append(@, volume)]
          /\ UNCHANGED calls

Next ==
  \/ CallInit \/ CallRunAllTests \/ CallGetSampleRate \/ CallRunEchoTest
  \/ CallRunMicTest \/ CallCleanup
  \/ ContextResolved \/ ContextRejected \/ StreamGranted \/ StreamDenied
  \/ ModuleAdded \/ ModuleFailed \/ ProbeDone \/ NoiseMeasured
  \/ EchoTick \/ MicTick \/ MeterMessage

Spec == Init /\ [][Next]_vars

SpecOverlapping == InitWith(Overlapping) /\ [][Next]_vars

(***************************************************************************)
(* The recorder as a state machine                                         *)
(***************************************************************************)
\* The harness, constructed with no config and not used.
InitRecorder ==
  /\ ac = constructor([key \in {} |-> 0])
  /\ dev = Browser("ok")
  /\ calls = << >>
  /\ caller = Awaiting
  /\ out = << >>
  /\ \E platform \in {"ok", "noGetUserMedia"} : RecorderOn(platform)

Records(r) ==
  /\ rec' = r.rec
  /\ mic' = r.mic
  /\ starts' = r.starts
  /\ out' = r.out
  /\ UNCHANGED <<checkVars, live, app>>

Awaits(pc) == {c \in DOMAIN starts : starts[c].pc = pc}

CallStart ==
  /\ tray.starts < MaxStarts
  /\ tray' = [tray EXCEPT !.starts = @ + 1]
  /\ Records(start(Recorder, tray.starts + 1))

\* A start() has completed and the recorder has been stopped since.
StoppedAfterStart ==
  /\ rec.starting = Null /\ ~rec.recording /\ rec.stream = Null
  /\ \E k \in DOMAIN mic.worklets : mic.worklets[k].emits = "volume"

\* History, tray.repeated: the stop() calls made on a recorder that had
\* completed a start() and was stopped already.
CallStop ==
  /\ tray.stops < MaxStops
  /\ tray' = [tray EXCEPT !.stops = @ + 1,
                          !.repeated = @ + IF StoppedAfterStart THEN 1 ELSE 0]
  /\ Records(stop(Recorder))

MicGranted ==
  \E c \in Awaits("awaitGUM") :
    Records(startGotStream(Recorder, c)) /\ UNCHANGED tray

MicDenied ==
  \E c \in Awaits("awaitGUM") :
    Records(startCatch(Recorder, c, "Permission denied")) /\ UNCHANGED tray

RecorderContextResolved ==
  \E c \in Awaits("awaitCtx") :
    Records(startGotContext(Recorder, c)) /\ UNCHANGED tray

RecorderContextRejected ==
  \E c \in Awaits("awaitCtx") :
    Records(startCatch(Recorder, c, "AudioContext failed")) /\ UNCHANGED tray

RecorderModuleAdded ==
  \E c \in Awaits("awaitRecorderModule") :
    Records(startGotRecorderModule(Recorder, c)) /\ UNCHANGED tray

RecorderModuleFailed ==
  \E c \in Awaits("awaitRecorderModule") :
    Records(startCatch(Recorder, c, "addModule failed")) /\ UNCHANGED tray

MeterModuleAdded ==
  \E c \in Awaits("awaitMeterModule") :
    Records(startGotMeterModule(Recorder, c)) /\ UNCHANGED tray

MeterModuleFailed ==
  \E c \in Awaits("awaitMeterModule") :
    Records(startCatch(Recorder, c, "addModule failed")) /\ UNCHANGED tray

NextRecorder ==
  \/ CallStart \/ CallStop
  \/ MicGranted \/ MicDenied
  \/ RecorderContextResolved \/ RecorderContextRejected
  \/ RecorderModuleAdded \/ RecorderModuleFailed
  \/ MeterModuleAdded \/ MeterModuleFailed

SpecRecorder == InitRecorder /\ [][NextRecorder]_vars

(***************************************************************************)
(* The audio-check view followed by the conversation view                  *)
(***************************************************************************)
\* AudioCheckView: the harness is constructed with the view's config; the
\* hook's state (use-audio-check.ts lines 26-30) starts as useState gives it.
\* History, passed: the ways onAudioCheckPassed has been invoked.
AudioCheckView ==
  [ made |-> 0, limit |-> MaxCalls + 1, overlap |-> FALSE,
    view |-> "audio-check",
    isInitialized |-> FALSE, isRunning |-> FALSE, error |-> FALSE,
    results |-> None, passed |-> {} ]

AudioCheckViewConfig ==
  [ echoTestDuration |-> 3, micTestDuration |-> 2, minMicLevel |-> 1,
    maxBackgroundNoise |-> 5, echoThreshold |-> 50, targetSampleRate |-> 24000 ]

InitApp ==
  /\ ac = constructor(AudioCheckViewConfig)
  /\ \E platform \in PlatformKinds : dev = Browser(platform)
  /\ calls = << >>
  /\ caller = AudioCheckView
  /\ out = << >>
  /\ RecorderOn("ok")

\* onAudioCheckPassed has been invoked: the parent replaces the view before
\* the user can act on it again.
Leaving == caller.view = "audio-check" /\ caller.passed # {}

\* The view's mount effect: init().
ViewCallsInit ==
  /\ caller.view = "audio-check"
  /\ caller.made = 0
  /\ CallInit

\* The 'Run All Tests' button, enabled unless isRunning || !isInitialized:
\* handleRunAllTests and the hook's runAllTests to its await (view lines
\* 43-49, hook lines 67-76).
ViewRunsAllTests ==
  /\ caller.view = "audio-check" /\ ~Leaving
  /\ caller.isInitialized /\ ~caller.isRunning
  /\ caller.made < caller.limit
  /\ LET w == init(Called("runAllTests"), NextCall)
     IN /\ ac' = w.ac
        /\ dev' = w.dev
        /\ calls' = w.calls
        /\ out' = w.out
        /\ caller' = hookHears([caller EXCEPT !.made = @ + 1,
                                              !.isRunning = TRUE,
                                              !.error = FALSE,
                                              !.results = None], w.out)
        /\ UNCHANGED recVars

\* The buttons under the final results (view lines 258-343): 'Continue to
\* Session' when the verdict is passed, 'Proceed Anyway' when it is not.
ViewProceeds ==
  /\ caller.view = "audio-check" /\ ~Leaving
  /\ caller.results # None
  /\ caller' = [caller EXCEPT !.passed =
                  @ \cup {IF caller.results[1].overallPassed
                          THEN "continue" ELSE "proceed"}]
  /\ out' = << >>
  /\ UNCHANGED <<ac, dev, calls, recVars>>

\* The view is left for the conversation.  The view's and the hook's effect
\* cleanups each call cleanup() before the control tray mounts.
ViewUnmounts ==
  /\ Leaving
  /\ ac' = cleanup(cleanup(World)).ac
  /\ dev' = cleanup(cleanup(World)).dev
  /\ caller' = [caller EXCEPT !.view = "conversation"]
  /\ out' = << >>
  /\ UNCHANGED <<calls, recVars>>

\* The control tray's recorder effect runs in the conversation view.
TrayRecords ==
  /\ caller.view = "conversation"
  /\ NextRecorder

NextApp ==
  \/ ViewCallsInit \/ ViewRunsAllTests \/ ViewProceeds \/ ViewUnmounts
  \/ TrayRecords
  \/ ContextResolved \/ ContextRejected \/ StreamGranted \/ StreamDenied
  \/ ModuleAdded \/ ModuleFailed \/ ProbeDone \/ NoiseMeasured
  \/ EchoTick \/ MicTick \/ MeterMessage

SpecApp == InitApp /\ [][NextApp]_vars

\* The audio-check view alone, until it is left.
NextView ==
  \/ ViewCallsInit \/ ViewRunsAllTests \/ ViewProceeds \/ ViewUnmounts
  \/ ContextResolved \/ ContextRejected \/ StreamGranted \/ StreamDenied
  \/ ModuleAdded \/ ModuleFailed \/ ProbeDone \/ NoiseMeasured
  \/ EchoTick \/ MicTick \/ MeterMessage

SpecView == InitApp /\ [][NextView]_vars

(***************************************************************************)
(* The measuring stages on an initialized harness                          *)
(***************************************************************************)
MaxStageSamples == 3   \* level samples the meter posts during one stage

\* The harness after an init() on which every step succeeded.
AfterInit(config, rate) ==
  LET w0 == [ ac |-> constructor(config), dev |-> Browser("ok"),
              calls |-> (1 :> NewCall("init")), out |-> << >> ]
      w1 == initGotContext(init(w0, 1), 1, rate)
  IN initGotModule(initGotStream(w1, 1), 1)

InitMeasure ==
  \E config \in ConfigInputs, rate \in Rates :
    /\ ac = AfterInit(config, rate).ac
    /\ dev = [AfterInit(config, rate).dev EXCEPT !.budget = MaxStageSamples]
    /\ calls = AfterInit(config, rate).calls
    /\ caller = [made |-> 1, limit |-> 2, overlap |-> FALSE]
    /\ out = << >>
    /\ RecorderOn("ok")

NextMeasure ==
  \/ CallRunEchoTest \/ CallRunMicTest
  \/ NoiseMeasured \/ EchoTick \/ MicTick \/ MeterMessage

SpecMeasure == InitMeasure /\ [][NextMeasure]_vars

(***************************************************************************)
(* The mic test's statistics on long level histories                       *)
(***************************************************************************)
MaxHistory == 40   \* levels the meter has posted when the mic test ends

\* Level histories of n samples: all levels distinct and out of order
\* (modulus 101), or few levels with many repetitions (modulus 5).
Histories(n) == { [i \in 1..n |-> (i * 3) % q] : q \in {5, 101} }

\* A runMicTest() on an initialized harness, sleeping in the last pass of its
\* loop, with the history its handler has collected so far.
InitHistory ==
  \E n \in 1..MaxHistory :
    \E h \in Histories(n) :
      LET w0 == AfterInit([key \in {} |-> 0], 24000)
          w1 == runMicTest([w0 EXCEPT !.calls = (2 :> NewCall("runMicTest"))],
                           2, FALSE)
          last == w1.ac.config.micTestDuration - 1
      IN /\ ac = [w1.ac EXCEPT !.volumeHistory = h]
         /\ dev = [w1.dev EXCEPT !.posted = n, !.budget = n]
         /\ calls = [w1.calls EXCEPT ![2].i = last]
         /\ caller = [made |-> 2, limit |-> 2, overlap |-> FALSE]
         /\ out = << >>
         /\ RecorderOn("ok")

SpecHistory == InitHistory /\ [][MicTick]_vars

(***************************************************************************)
(* Properties                                                              *)
(***************************************************************************)
\* The promises of calls of `kind` that the last step settled.
Settled(kind) ==
  {out[k] : k \in {j \in DOMAIN out : out[j].type = "settled" /\ out[j].kind = kind}}

LiveStreams == {s \in DOMAIN dev.streams : dev.streams[s] = "live"}

TopLevelInFlight ==
  {c \in DOMAIN calls : calls[c].kind \in {"init", "runAllTests"}}

\* The errors init() rejects with from inside its try block.
InitErrors ==
  { "getUserMedia not supported", "Web Audio API not supported",
    "AudioContext failed", "Permission denied", "addModule failed", "TypeError" }

\* C1: whenever runAllTests() resolves, its result holds a sample rate, an
\* echo-test result, a microphone-test result and a boolean verdict; a run
\* that cannot deliver all of them rejects instead.
C1_ResultFullyPopulated ==
  \A e \in Settled("runAllTests") :
    e.outcome = "resolved" =>
      /\ e.value # None
      /\ e.value[1].sampleRate # None
      /\ e.value[1].echoTest # None
      /\ e.value[1].microphoneTest # None
      /\ e.value[1].overallPassed \in BOOLEAN

\* C1 witness: a runAllTests() has just resolved with a result.
C1_Witness ==
  \E e \in Settled("runAllTests") : e.outcome = "resolved" /\ e.value # None

\* C2 (as claimed): a runAllTests() in which the echo test or the mic test
\* hit an internal error (and that no cleanup() interrupted) resolves, with
\* the worst-case values of the failed test in its result and a failed verdict.
C2_FailedTestStillResolves ==
  \A e \in Settled("runAllTests") :
    (e.failed # {} /\ ~e.cleaned) =>
      /\ e.outcome = "resolved"
      /\ "echo-test" \in e.failed =>
           e.value[1].echoTest =
             Some([passed |-> FALSE, echoLevel |-> RatOf(WorstLevel)])
      /\ "mic-test" \in e.failed =>
           e.value[1].microphoneTest = Some([level |-> 0, noise |-> WorstLevel])
      /\ e.value[1].overallPassed = FALSE

\* C3: the verdict of every result runAllTests() returns is the conjunction
\* of: sample rate at least the target, echo test passed, mic level at least
\* the minimum, noise strictly below the maximum.
C3_VerdictIsTheConjunction ==
  \A e \in Settled("runAllTests") :
    e.outcome = "resolved" =>
      LET v == e.value[1] IN
      v.overallPassed =
        ( /\ v.sampleRate[1] >= ac.config.targetSampleRate
          /\ v.echoTest[1].passed
          /\ v.microphoneTest[1].level >= ac.config.minMicLevel
          /\ v.microphoneTest[1].noise < ac.config.maxBackgroundNoise )

\* C3 witness: a returned verdict is a fail only through the strict noise
\* bound: the noise equals the maximum and everything else passes.
C3_Witness ==
  \E e \in Settled("runAllTests") :
    /\ e.outcome = "resolved"
    /\ ~e.value[1].overallPassed
    /\ e.value[1].microphoneTest[1].noise = ac.config.maxBackgroundNoise
    /\ e.value[1].sampleRate[1] >= ac.config.targetSampleRate
    /\ e.value[1].echoTest[1].passed
    /\ e.value[1].microphoneTest[1].level >= ac.config.minMicLevel

\* C4 (as claimed): at most one of the streams the harness opened is live.
C4_AtMostOneLiveStream == Cardinality(LiveStreams) <= 1

\* C5 (as claimed): when an init() during which cleanup() was called settles,
\* the stream it acquired and the stream the harness holds are stopped and
\* the harness is not initialized.
C5_CleanupDuringInitReleases ==
  \A e \in Settled("init") :
    e.cleaned =>
      /\ e.obtained # Null => dev.streams[e.obtained] = "stopped"
      /\ ac.stream # Null => dev.streams[ac.stream] = "stopped"
      /\ ~isInitialized(ac)

\* C8 (as claimed): a second init() or runAllTests() is never accepted while
\* one is in flight.
C8_OneTopLevelRunInFlight == Cardinality(TopLevelInFlight) <= 1

\* C9 (as claimed): when init() rejects from its try block, the stream it
\* acquired is stopped, its source is disconnected, the harness holds no
\* node, is not running and not initialized, and the call emitted an error
\* event before it rejected.
C9_InitFailureReleasesAll ==
  \A k \in DOMAIN out :
    ( /\ out[k].type = "settled"
      /\ out[k].kind \in {"init", "runAllTests"}
      /\ out[k].outcome = "rejected"
      /\ out[k].error \in InitErrors ) =>
      /\ out[k].obtained # Null =>
           /\ dev.streams[out[k].obtained] = "stopped"
           /\ out[k].obtained \notin dev.connected
      /\ ac.source = Null /\ ac.volMeterWorklet = Null
      /\ ~ac.isRunning
      /\ ~isInitialized(ac)
      /\ \E j \in 1..(k - 1) :
           /\ out[j].type = "progress"
           /\ out[j].call = out[k].call
           /\ out[j].stage = "error"

\* C6 (as claimed): when a start() on which stop() was called while it was in
\* flight settles, the stream it obtained is stopped and recording is false.
C6_StopDuringStartReleases ==
  \A e \in Settled("start") :
    e.thens > 0 =>
      /\ e.obtained # Null => mic.streams[e.obtained] = "stopped"
      /\ ~rec.recording

\* C7 (as claimed): at most one start() is in flight.
C7_OneStartInFlight == Cardinality(DOMAIN starts) <= 1

\* C10 (as claimed): when start() rejects after it obtained a stream, that
\* stream's tracks are stopped.
C10_FailedStartStopsStream ==
  \A e \in Settled("start") :
    (e.outcome = "rejected" /\ e.obtained # Null) =>
      mic.streams[e.obtained] = "stopped"

\* C11 (as claimed): when a runAllTests() that passed the already-running
\* guard settles, every stream the harness opened is stopped, no tone is
\* playing and the harness is not initialized.
C11_RunAllTestsReleasesDevice ==
  \A e \in Settled("runAllTests") :
    e.error # "AudioCheck is already running" =>
      /\ LiveStreams = {}
      /\ dev.playing = {}
      /\ ~isInitialized(ac)

\* The streams the recorder opened whose tracks are not stopped.
LiveRecorderStreams == {s \in DOMAIN mic.streams : mic.streams[s] = "live"}

\* C12 (as claimed): a live stream of the recorder and a live stream of the
\* harness never exist together.
C12_OneOwnerOfTheMicrophone == LiveStreams = {} \/ LiveRecorderStreams = {}

\* C13 (as claimed): from every state, a second cleanup() right after a
\* first one changes nothing, and after them no stream the harness opened is
\* live, no tone is playing and the harness is not initialized.
C13_CleanupIsIdempotent ==
  LET w1 == cleanup(World)
      w2 == cleanup(w1)
  IN /\ w2 = w1
     /\ \A s \in DOMAIN w2.dev.streams : w2.dev.streams[s] = "stopped"
     /\ w2.dev.playing = {}
     /\ ~isInitialized(w2.ac)

\* C14: from every state, one cleanup() leaves the held stream stopped, the
\* source and the meter disconnected, the tone stopped, every resource field
\* cleared, isRunning false and isInitialized() false, and leaves the config
\* and the recorded results as they were.
C14_CleanupReleasesEverything ==
  LET w1 == cleanup(World) IN
  /\ ac.stream # Null => w1.dev.streams[ac.stream] = "stopped"
  /\ ac.source # Null => ac.source \notin w1.dev.connected
  /\ ac.volMeterWorklet # Null => w1.dev.meters[ac.volMeterWorklet].disconnected
  /\ ac.oscillator # Null => ac.oscillator \notin w1.dev.playing
  /\ w1.ac.stream = Null /\ w1.ac.source = Null /\ w1.ac.volMeterWorklet = Null
  /\ w1.ac.oscillator = Null /\ w1.ac.gainNode = Null
  /\ ~w1.ac.isRunning
  /\ ~isInitialized(w1.ac)
  /\ w1.ac.config = ac.config
  /\ w1.ac.results = ac.results

\* C14 witness: the middle of an echo test: the tone is playing, the stream
\* is live, the meter is fed and a sample rate is already recorded.
C14_Witness ==
  /\ Pending("echoTick") # {}
  /\ ac.oscillator # Null /\ ac.oscillator \in dev.playing
  /\ ac.stream # Null /\ dev.streams[ac.stream] = "live"
  /\ ac.source \in dev.connected
  /\ ac.volMeterWorklet # Null
  /\ ac.isRunning
  /\ ac.results.sampleRate # None

\* C15 (as claimed): in every state in which the harness holds no stream, a
\* call of getSampleRate(), runEchoTest() or runMicTest() rejects with the
\* not-initialized error and does nothing else: the harness is unchanged
\* (isRunning and results included) and no progress event is emitted.
C15_StagesNeedASession ==
  (MayCall /\ ac.stream = Null) =>
    LET sr == getSampleRate(Called("getSampleRate"), NextCall)
        echo == runEchoTest(Called("runEchoTest"), NextCall)
        micTest == runMicTest(Called("runMicTest"), NextCall, FALSE)
    IN \A w \in {sr, echo, micTest} :
         /\ w.ac = ac
         /\ Len(w.out) = 1
         /\ w.out[1].type = "settled"
         /\ w.out[1].outcome = "rejected"
         /\ w.out[1].error = "AudioCheck not initialized"

\* The 'error' progress events the last step emitted for call c.
ErrorEvents(c) ==
  {k \in DOMAIN out : /\ out[k].type = "progress"
                      /\ out[k].call = c
                      /\ out[k].stage = "error"}

\* C16: a runEchoTest() or runMicTest() that passed its initialization check
\* never rejects and leaves isRunning false; when an internal error occurred
\* it resolves to the worst-case value and has emitted exactly one 'error'
\* progress event (and none otherwise).
C16_StageFailuresAreSoft ==
  \A e \in Settled("runEchoTest") \cup Settled("runMicTest") :
    e.error # "AudioCheck not initialized" =>
      /\ e.outcome = "resolved"
      /\ ~ac.isRunning
      /\ Cardinality(ErrorEvents(e.call)) = IF e.failed # {} THEN 1 ELSE 0
      /\ (e.failed # {} /\ e.kind = "runEchoTest") =>
           e.value = Some([passed |-> FALSE, echoLevel |-> RatOf(WorstLevel)])
      /\ (e.failed # {} /\ e.kind = "runMicTest") =>
           e.value = Some([level |-> 0, noise |-> WorstLevel])

\* C16 witness: a runEchoTest() that hit an internal error has just settled.
C16_Witness ==
  \E e \in Settled("runEchoTest") : e.failed = {"echo-test"}

\* C17: the echo test records echoLevel = max(0, mean of the levels heard
\* during the tone - mean of the levels heard during the baseline second)
\* (the mean of no levels being 0) and passed = (echoLevel < echoThreshold).
\* With st, nt the sum and number of tone levels and sb, nb those of the
\* baseline, the difference of the means is (st*nb - sb*nt) / (nt*nb).
C17_EchoLevelIsMeanAboveBaseline ==
  \A e \in Settled("runEchoTest") :
    (e.outcome = "resolved" /\ e.failed = {}) =>
      LET st == Sum(e.echoVolumes)
          sb == Sum(e.noiseVolumes)
          nt == IF e.echoVolumes = << >> THEN 1 ELSE Len(e.echoVolumes)
          nb == IF e.noiseVolumes = << >> THEN 1 ELSE Len(e.noiseVolumes)
          diff == st * nb - sb * nt
          level == e.value[1].echoLevel
      IN /\ level.d > 0
         /\ level.n * (nt * nb) = level.d * (IF diff > 0 THEN diff ELSE 0)
         /\ e.value[1].passed = (level.n < ac.config.echoThreshold * level.d)
         /\ ac.results.echoTest = e.value
         /\ (st * nb = sb * nt) => (level.n = 0 /\ e.value[1].passed)

\* C17 witness: an echo test has resolved after levels were heard both in
\* the baseline second and during the tone, and their means are equal.
C17_Witness ==
  \E e \in Settled("runEchoTest") :
    /\ e.outcome = "resolved" /\ e.failed = {}
    /\ e.noiseVolumes # << >> /\ e.echoVolumes # << >>
    /\ Sum(e.noiseVolumes) > 0
    /\ Sum(e.echoVolumes) * Len(e.noiseVolumes)
         = Sum(e.noiseVolumes) * Len(e.echoVolumes)
    /\ e.value[1].echoLevel = RatOf(0)
    /\ e.value[1].passed

\* v is the element at (0-based) index k of the history h sorted ascending:
\* at most k elements are below it and more than k are at or below it.
AtSortedIndex(h, k, v) ==
  /\ \E i \in DOMAIN h : h[i] = v
  /\ Cardinality({i \in DOMAIN h : h[i] < v}) <= k
  /\ Cardinality({i \in DOMAIN h : h[i] <= v}) > k

\* C18: for a non-empty history of n levels, the mic test records as level
\* the element at index floor(0.95 n) and as noise the element at index
\* floor(0.10 n) of the history sorted ascending, whatever the order the
\* levels arrived in.
C18_MicPercentiles ==
  \A e \in Settled("runMicTest") :
    (e.outcome = "resolved" /\ e.failed = {} /\ ac.volumeHistory # << >>) =>
      LET h == ac.volumeHistory
          n == Len(h)
      IN /\ AtSortedIndex(h, (95 * n) \div 100, e.value[1].level)
         /\ AtSortedIndex(h, (10 * n) \div 100, e.value[1].noise)
         /\ ac.results.microphoneTest = e.value

\* C18 witness: a mic test has resolved on a history of 40 distinct levels
\* that did not arrive in ascending order: the level is the 39th smallest
\* (index 38) and the noise the 5th smallest (index 4) of them.
C18_Witness ==
  \E e \in Settled("runMicTest") :
    /\ e.outcome = "resolved" /\ e.failed = {}
    /\ Len(ac.volumeHistory) = 40
    /\ \E i \in 1..39 : ac.volumeHistory[i] > ac.volumeHistory[i + 1]
    /\ Cardinality({i \in 1..40 : ac.volumeHistory[i] < e.value[1].level}) = 38
    /\ Cardinality({i \in 1..40 : ac.volumeHistory[i] < e.value[1].noise}) = 4

\* C19: whatever the platform does with the candidate rates, the probe of a
\* getSampleRate() that holds a context reports the first candidate, in the
\* order 96000, 88200, 48000, 44100, 24000, 22050, 16000, 8000, whose
\* context runs within 1 Hz of the request, and the rate of the harness'
\* context when there is none; on a platform honouring only 48000 and 16000
\* it reports 48000.
C19_ProbeReturnsFirstHonoredRate ==
  \A c \in Pending("awaitProbe"), realized \in ProbePlatforms :
    ac.audioContext # Null =>
      LET reported == srFinish(World, c, realized).out[1]
          order == <<96000, 88200, 48000, 44100, 24000, 22050, 16000, 8000>>
          honored == {k \in 1..8 : /\ realized[order[k]] # 0
                                   /\ realized[order[k]] - order[k] < 1
                                   /\ order[k] - realized[order[k]] < 1}
          first == CHOOSE k \in honored : \A j \in honored : k <= j
      IN /\ reported.type = "progress" /\ reported.stage = "sample-rate"
         /\ reported.info =
              Some(IF honored = {} THEN ac.audioContext ELSE order[first])
         /\ {order[k] : k \in honored} = {48000, 16000} =>
              reported.info = Some(48000)

\* C19 witness: a probe on the platform honouring only 48000 and 16000 has
\* just reported 48000 (no other platform and no fallback yields 48000).
C19_Witness ==
  \E k \in DOMAIN out :
    /\ out[k].type = "progress" /\ out[k].stage = "sample-rate"
    /\ out[k].info = Some(48000)

\* The settlements among the outputs of a step.
Settlements(w) ==
  {w.out[k] : k \in {j \in DOMAIN w.out : w.out[j].type = "settled"}}

\* C20: a getSampleRate() that resolves returns the rate it recorded as
\* results.sampleRate, which is the rate of the harness' context; and
\* whatever the candidate-rate probe finds, the step that follows it leaves
\* the same harness state (results and verdict included) and settles the
\* same promises with the same values.
C20_ProbeIsAdvisory ==
  /\ \A e \in Settled("getSampleRate") :
       e.outcome = "resolved" =>
         /\ e.value = ac.results.sampleRate
         /\ ac.audioContext # Null => e.value = Some(ac.audioContext)
  /\ \A c \in Pending("awaitProbe") :
       /\ ac.results.sampleRate = Some(calls[c].sampleRate)
       /\ \A r1, r2 \in ProbePlatforms :
            LET w1 == srFinish(World, c, r1)
                w2 == srFinish(World, c, r2)
            IN /\ w1.ac = w2.ac
               /\ w1.calls = w2.calls
               /\ w1.dev = w2.dev
               /\ Settlements(w1) = Settlements(w2)
               /\ isTestPassed(w1.ac) = isTestPassed(w2.ac)
               /\ w1.ac.results.sampleRate = ac.results.sampleRate

\* C20 witness: a getSampleRate() has just resolved with the context's rate
\* while its probe reported another rate.
C20_Witness ==
  \E e \in Settled("getSampleRate") :
    /\ e.outcome = "resolved"
    /\ e.value = Some(ac.audioContext)
    /\ \E k \in DOMAIN out :
         /\ out[k].type = "progress" /\ out[k].stage = "sample-rate"
         /\ out[k].info # None /\ out[k].info # e.value

\* The place of a stage tag in the order of a full run.
StageRank ==
  ("init" :> 1) @@ ("sample-rate" :> 2) @@ ("echo-test" :> 3)
    @@ ("mic-test" :> 4) @@ ("complete" :> 5)

\* C21: in a runAllTests() in which no stage failed, the progress events
\* carry the tags init, sample-rate, echo-test, mic-test, complete in this
\* order, every tag present and no tag after a later one; and when the
\* promise settles the cleanup has been done: nothing is held, the stream
\* the run obtained is stopped and its tone is not playing.
C21_StagesInOrderThenCleanup ==
  \A e \in Settled("runAllTests") :
    (e.outcome = "resolved" /\ e.failed = {}) =>
      LET t == e.trace IN
      /\ \A i \in DOMAIN t : t[i].stage \in DOMAIN StageRank
      /\ \A i, j \in DOMAIN t :
           i < j => StageRank[t[i].stage] <= StageRank[t[j].stage]
      /\ {t[i].stage : i \in DOMAIN t} = DOMAIN StageRank
      /\ t[Len(t)].stage = "complete"
      /\ ac.stream = Null /\ ac.source = Null /\ ac.volMeterWorklet = Null
      /\ ~isInitialized(ac)
      /\ e.obtained # Null /\ dev.streams[e.obtained] = "stopped"
      /\ e.obtained \notin dev.connected
      /\ e.call \notin dev.playing

\* C21 witness: a runAllTests() in which no stage failed has just resolved,
\* its last event being the 'complete' one.
C21_Witness ==
  \E e \in Settled("runAllTests") :
    /\ e.outcome = "resolved" /\ e.failed = {}
    /\ Len(e.trace) >= 5
    /\ e.trace[Len(e.trace)].stage = "complete"

\* The progress events of every call: of the calls in flight so far, of the
\* calls that settle in this step in full.
Traces ==
  {calls[c].trace : c \in DOMAIN calls}
    \cup {out[k].trace : k \in {j \in DOMAIN out : out[j].type = "settled"}}

TimedStages == {"init", "sample-rate", "echo-test", "mic-test"}

\* Position i is the first event of an execution of a stage.
StageStarts(t, i) ==
  /\ t[i].stage \in TimedStages
  /\ (i = 1 \/ t[i - 1].stage # t[i].stage)

\* Position i is the last event of an execution of a stage that succeeded:
\* another stage follows it and not the 'error' event of a failure.
StageSucceeded(t, i) ==
  /\ t[i].stage \in TimedStages
  /\ i < Len(t)
  /\ t[i + 1].stage \notin {t[i].stage, "error"}

\* C22: within one execution of a stage the percent of the events with the
\* stage's tag starts at 0 and never decreases; a stage that succeeded ends
\* with 100, in a full run (the next stage follows) and in a stage call that
\* resolves without an 'error' event; the next stage starts at 0 again.
C22_PercentPerStage ==
  /\ \A t \in Traces : \A i \in DOMAIN t :
       /\ StageStarts(t, i) => t[i].progress = RatOf(0)
       /\ (i < Len(t) /\ t[i + 1].stage = t[i].stage)
            => ~RatLess(t[i + 1].progress, t[i].progress)
       /\ StageSucceeded(t, i) => t[i].progress = RatOf(100)
  /\ \A e \in Settlements([out |-> out]) :
       (e.outcome = "resolved" /\ e.kind # "runAllTests" /\ e.failed = {}
          /\ e.trace # << >>)
         => e.trace[Len(e.trace)].progress = RatOf(100)

\* C22 witness: a full run has passed from the echo test, whose percents
\* rose through a tick between 30 and 100 to 100, to the mic test, whose
\* first event is at 0 again.
C22_Witness ==
  \E c \in DOMAIN calls :
    LET t == calls[c].trace IN
    \E i, j \in DOMAIN t :
      /\ i < j /\ j < Len(t)
      /\ t[i].stage = "echo-test"
      /\ RatLess(RatOf(30), t[i].progress) /\ RatLess(t[i].progress, RatOf(100))
      /\ StageSucceeded(t, j) /\ t[j].stage = "echo-test"
      /\ StageStarts(t, j + 1) /\ t[j + 1].stage = "mic-test"

(***************************************************************************)
(* The per-second ticks for every whole-second duration                    *)
(***************************************************************************)
MaxDuration == 4   \* the longest echoTestDuration and micTestDuration, seconds

\* An initialized harness for every pair of whole-second durations.
InitTicks ==
  \E echoTestDuration, micTestDuration \in 1..MaxDuration :
    LET w == AfterInit([echoTestDuration |-> echoTestDuration,
                        micTestDuration |-> micTestDuration], 24000)
    IN /\ ac = w.ac
       /\ dev = w.dev
       /\ calls = w.calls
       /\ caller = [made |-> 1, limit |-> 2, overlap |-> FALSE]
       /\ out = << >>
       /\ RecorderOn("ok")

SpecTicks == InitTicks /\ [][NextMeasure]_vars

\* C23: whatever the positive whole-second durations of the config, the
\* percent of every progress event is a whole number from 0 to 100, the
\* per-second ticks of the echo test and of the mic test included.
C23_PercentIsWholeNumber ==
  \A k \in DOMAIN out :
    out[k].type = "progress" =>
      /\ out[k].progress.d = 1
      /\ out[k].progress.n \in 0..100

\* C24: a result runAllTests() returns is built from the sub-results its own
\* three sub-tests recorded: a run whose echo test or mic test ended in its
\* catch block, and so recorded nothing, never resolves with a result made
\* complete by a value an earlier run or stage call left in this.results.
C24_ResultFromThisRunOnly ==
  \A e \in Settled("runAllTests") :
    e.outcome = "resolved" => e.failed = {}

(***************************************************************************)
(* The control tray's capture path                                         *)
(***************************************************************************)
MaxChunks == 3   \* messages the recorder worklet posts

\* The sample buffers the worklet posts, as their bytes: of 0, 1, 2, 3 and 4
\* bytes, so that every padding of the encoding occurs.
Buffers ==
  { << >>, <<255>>, <<0, 16>>, <<77, 97, 110>>, <<251, 255, 0, 62>> }

\* ev.data.data of a worklet message: with a buffer or without one.
Messages == {[int16arrayBuffer |-> None]}
              \cup {[int16arrayBuffer |-> Some(b)] : b \in Buffers}

InitCapture ==
  /\ ac = constructor([key \in {} |-> 0])
  /\ dev = Browser("ok")
  /\ calls = << >>
  /\ caller = Awaiting
  /\ out = << >>
  /\ RecorderOn("ok")

\* The tray's effect with connected && !muted (ControlTray lines 91-99):
\* on("data", onData) and start().
TrayUnmuted ==
  /\ tray.starts = 0
  /\ tray' = [tray EXCEPT !.starts = 1, !.listening = TRUE,
                          !.connected = TRUE]
  /\ Records(start(Recorder, 1))

\* The effect's cleanup, off("data", onData), and its next run with muted or
\* not connected: stop() (ControlTray lines 100-106).
TrayMuted ==
  /\ tray.listening
  /\ tray' = [tray EXCEPT !.stops = @ + 1, !.listening = FALSE,
                          !.muted = TRUE]
  /\ Records(stop(Recorder))

\* A recorder worklet that its source feeds posts a message.
WorkletPosts ==
  \E k \in DOMAIN mic.worklets, ev \in Messages :
    /\ mic.worklets[k].emits = "data"
    /\ mic.worklets[k].feed \in mic.connected
    /\ Len(mic.produced) + Len(mic.port) < MaxChunks
    /\ mic' = [mic EXCEPT !.port = Append(@, ev),
                          !.produced = IF ev.int16arrayBuffer # None
                                       THEN Append(@, ev.int16arrayBuffer[1])
                                       ELSE @]
    /\ out' = << >>
    /\ UNCHANGED <<checkVars, rec, starts, tray, live, app>>

\* The event loop delivers the oldest message to the port's handler; the
\* 'data' event reaches the tray's onData while it is registered, which
\* calls client.sendRealtimeInput (ControlTray lines 82-89).
PortDelivers ==
  /\ mic.port # << >>
  /\ LET r == onmessage([Recorder EXCEPT !.mic.port = Tail(@)], Head(mic.port))
     IN /\ Records(r)
        /\ tray' = IF tray.listening
                   THEN [tray EXCEPT !.sent =
                           @ \o [k \in DOMAIN r.out |->
                                   [mimeType |-> "audio/pcm;rate=16000",
                                    data |-> r.out[k].data]]]
                   ELSE tray

NextCapture ==
  \/ TrayUnmuted \/ TrayMuted
  \/ MicGranted \/ RecorderContextResolved
  \/ RecorderModuleAdded \/ MeterModuleAdded
  \/ WorkletPosts \/ PortDelivers

SpecCapture == InitCapture /\ [][NextCapture]_vars

\* The bytes a receiver decodes from a base64 text (the inverse of btoa).
RECURSIVE atob(_)
atob(text) ==
  IF Len(text) < 4 THEN << >>
  ELSE LET a == text[1]
           b == text[2]
           c == text[3]
           d == text[4]
           bytes == IF c = Pad THEN << a * 4 + b \div 16 >>
                    ELSE IF d = Pad
                         THEN << a * 4 + b \div 16, (b % 16) * 16 + c \div 4 >>
                    ELSE << a * 4 + b \div 16, (b % 16) * 16 + c \div 4,
                            (c % 4) * 64 + d >>
       IN bytes \o atob(SubSeq(text, 5, Len(text)))

\* The buffers of the messages still in the port, oldest first.
RECURSIVE BuffersIn(_)
BuffersIn(port) ==
  IF port = << >> THEN << >>
  ELSE (IF Head(port).int16arrayBuffer # None
        THEN << Head(port).int16arrayBuffer[1] >> ELSE << >>)
         \o BuffersIn(Tail(port))

\* C25: every worklet message with a sample buffer produces one 'data'
\* event, whose payload is base64 text that decodes to the buffer, and the
\* events come in the order of the messages: the decoded payloads followed
\* by the buffers still to be delivered are the buffers posted.  The
\* sendRealtimeInput calls are the events heard while onData is registered,
\* in the same order; while the tray has not muted they are all the events.
C25_ChunksInProductionOrder ==
  /\ [i \in DOMAIN mic.emitted |-> atob(mic.emitted[i])] \o BuffersIn(mic.port)
       = mic.produced
  /\ \A i \in DOMAIN mic.emitted :
       /\ Len(mic.emitted[i]) % 4 = 0
       /\ \A j \in DOMAIN mic.emitted[i] : mic.emitted[i][j] \in 0..Pad
  /\ Len(tray.sent) <= Len(mic.emitted)
  /\ \A i \in DOMAIN tray.sent :
       tray.sent[i] = [mimeType |-> "audio/pcm;rate=16000",
                       data |-> mic.emitted[i]]
  /\ tray.listening => Len(tray.sent) = Len(mic.emitted)

\* C25 witness: the recorder is running and three different buffers, one of
\* them encoded with padding, have been sent in the order they were posted.
C25_Witness ==
  /\ rec.recording /\ tray.listening
  /\ Len(tray.sent) = 3
  /\ Cardinality({tray.sent[i].data : i \in 1..3}) = 3
  /\ \E j \in DOMAIN tray.sent[2].data : tray.sent[2].data[j] = Pad
  /\ mic.produced[1] = <<77, 97, 110>>

\* C26: with no start() in flight (the recorder was never started, or its
\* start() has completed, whatever stops came before), stop() raises no
\* error and settles nothing, leaves the recorder without a stream and not
\* recording, and a second stop() right after it changes nothing.
C26_StopWhenStoppedIsQuiet ==
  rec.starting = Null =>
    LET r1 == stop(Recorder)
        r2 == stop(r1)
    IN /\ r1.out = << >>
       /\ r1.rec.stream = Null
       /\ ~r1.rec.recording
       /\ r1.starts = starts
       /\ r1.mic.streams \in [DOMAIN mic.streams -> {"live", "stopped"}]
       /\ (rec.stream # Null => r1.mic.streams[rec.stream] = "stopped")
       /\ r2 = r1

\* C26 witness: a start() has completed, its recorder has been stopped and
\* stop() has been called on it again; it is stopped and nothing settled.
C26_Witness ==
  /\ StoppedAfterStart /\ starts = << >>
  /\ tray.repeated >= 1
  /\ out = << >>

MaxAudio == 3        \* 'audio' events of the client
MaxInterrupts == 1   \* 'interrupted' events of the client
MaxTime == 4         \* frames the output clock runs

\* The byte lengths of the chunks the client delivers: 1, 2 and 3 frames.
ChunkBytes == {2, 4, 6}

InitPlayback ==
  /\ ac = constructor([key \in {} |-> 0])
  /\ dev = Browser("ok")
  /\ calls = << >>
  /\ caller = Awaiting
  /\ out = << >>
  /\ RecorderOn("ok")

Plays(l) ==
  /\ live' = l
  /\ out' = << >>
  /\ UNCHANGED <<checkVars, rec, mic, starts, tray, app>>

\* audioContext({id: "audio-out"}) resolves: new AudioStreamer (lines 32-44).
StreamerCreated ==
  /\ ~live.audioStreamer
  /\ Plays([live EXCEPT !.audioStreamer = TRUE])

ClientAudio ==
  \E byteLength \in ChunkBytes :
    /\ Len(live.received) < MaxAudio
    /\ Plays(onAudio(live, byteLength))

ClientInterrupted ==
  /\ Len(live.interrupts) < MaxInterrupts
  /\ Plays(stopAudioStreamer(live))

\* The output renders one frame: the frame of the scheduled chunk that
\* covers the clock's time, silence when there is none.
ClockAdvances ==
  /\ live.now < MaxTime
  /\ Plays([live EXCEPT
       !.now = @ + 1,
       !.heard = @ \cup
         { [t |-> live.now, chunk |-> live.scheduled[k].chunk] :
             k \in { j \in DOMAIN live.scheduled :
                       /\ live.scheduled[j].start <= live.now
                       /\ live.now < live.scheduled[j].start
                                       + live.scheduled[j].frames } }])

NextPlayback ==
  StreamerCreated \/ ClientAudio \/ ClientInterrupted \/ ClockAdvances

SpecPlayback == InitPlayback /\ [][NextPlayback]_vars

\* C28: the chunks are scheduled in the order they were enqueued, each with
\* the duration of its bytes, and as long as the queue has not underrun
\* chunk k begins exactly where chunk k-1 ends, that is at the first chunk's
\* start plus the durations of the chunks before it: no overlap, no gap.  A
\* chunk enqueued after an underrun begins later than the one before ends.
C28_ChunksBackToBack ==
  LET s == live.scheduled IN
  \A k \in DOMAIN s :
    /\ s[k].frames = live.received[s[k].chunk] \div 2
    /\ k > 1 =>
         /\ s[k - 1].chunk < s[k].chunk
         /\ ~s[k].underrun => s[k].start = s[k - 1].start + s[k - 1].frames
         /\ s[k].underrun => s[k].start > s[k - 1].start + s[k - 1].frames
    /\ (k = 3 /\ ~s[2].underrun /\ ~s[3].underrun) =>
         s[3].start = s[1].start + s[1].frames + s[2].frames
    /\ \A h \in live.heard : \A g \in live.heard :
         (h.t = g.t) => h.chunk = g.chunk

\* C28 witness: three chunks of different durations were enqueued from a
\* time T > 0 on without an underrun; the third begins at T + d1 + d2.
C28_Witness ==
  LET s == live.scheduled IN
  /\ Len(s) = 3
  /\ s[1].start > 0
  /\ ~s[2].underrun /\ ~s[3].underrun
  /\ Cardinality({s[k].frames : k \in 1..3}) = 3
  /\ s[3].start = s[1].start + s[1].frames + s[2].frames

\* C29: after an 'interrupted' event no frame of a chunk that was enqueued
\* before it is rendered: every frame heard of such a chunk was rendered
\* before the event, and none of these chunks is scheduled any more.
C29_InterruptFlushesPlayback ==
  \A i \in DOMAIN live.interrupts :
    LET when == live.interrupts[i].at
        upto == live.interrupts[i].upto
    IN /\ \A h \in live.heard : h.chunk <= upto => h.t < when
       /\ \A k \in DOMAIN live.scheduled : live.scheduled[k].chunk > upto

\* C29 witness: the client interrupted while the first of two scheduled
\* chunks was playing; the second was never heard, and a chunk enqueued
\* after the interruption has been played.
C29_Witness ==
  \E i \in DOMAIN live.interrupts :
    /\ live.interrupts[i].upto = 2
    /\ \E h \in live.heard : h.chunk = 1
    /\ \A h \in live.heard : h.chunk # 2
    /\ live.received[1] > 2
    /\ \E h \in live.heard : h.chunk = 3 /\ h.t >= live.interrupts[i].at

(***************************************************************************)
(* The topic picker                                                        *)
(***************************************************************************)
MaxTopics == 6   \* topics on offer

InitPicker ==
  /\ ac = constructor([key \in {} |-> 0])
  /\ dev = Browser("ok")
  /\ calls = << >>
  /\ caller = Awaiting
  /\ out = << >>
  /\ RecorderOn("ok")

Picks(a) ==
  /\ app' = a
  /\ out' = << >>
  /\ UNCHANGED <<checkVars, rec, mic, starts, tray, live>>

\* A topic's checkbox changes.
TopicToggled ==
  \E topic \in 1..MaxTopics :
    /\ app.currentStep = "topic-selection"
    /\ Picks([app EXCEPT !.picked = handleTopicToggle(@, topic)])

\* The continue button is clicked.
ContinueClicked ==
  /\ app.currentStep = "topic-selection"
  /\ Picks(handleContinue(app))

NextPicker == TopicToggled \/ ContinueClicked

SpecPicker == InitPicker /\ [][NextPicker]_vars

Distinct(topics) == Cardinality({topics[i] : i \in DOMAIN topics}) = Len(topics)

\* C30: after any toggles the selection holds 0 to 5 distinct topics: a
\* toggle of an unselected topic at 5 selected changes nothing, a toggle of
\* a selected topic removes it; and onTopicsSelected and onContinue have
\* been invoked only with a selection of 1 to 5 distinct topics.
C30_SelectionWithinLimit ==
  /\ Len(app.picked) \in 0..5
  /\ Distinct(app.picked)
  /\ \A topic \in 1..MaxTopics :
       LET next == handleTopicToggle(app.picked, topic) IN
       /\ includes(app.picked, topic) =>
            /\ ~includes(next, topic)
            /\ Len(next) = Len(app.picked) - 1
       /\ (~includes(app.picked, topic) /\ Len(app.picked) = 5) =>
            next = app.picked
  /\ (app.onContinue > 0 \/ app.currentStep = "conversation") =>
       /\ app.onContinue = 1 /\ app.currentStep = "conversation"
       /\ Len(app.selectedTopics) \in 1..5
       /\ Distinct(app.selectedTopics)
       /\ app.selectedTopics = app.picked

\* C30 witness: the picker continued with five topics selected.
C30_Witness ==
  /\ app.currentStep = "conversation"
  /\ Len(app.selectedTopics) = 5
  /\ app.onContinue = 1

\* A mic-test stage is executing: a call sleeps in runMicTest's loop.
MicTestExecuting == Pending("micTick") # {}

\* C31: the level history grows only while a mic-test stage is executing: a
\* level the meter delivers after runMicTest() has returned is not appended.
C31_HistoryGrowsOnlyInMicTest ==
  [][Len(ac'.volumeHistory) > Len(ac.volumeHistory) => MicTestExecuting]_vars

\* C32: a 'complete' progress event of a runAllTests() is emitted only when
\* that call then resolves, with a result whose overallPassed is the verdict
\* the event announced; it is never followed by a rejection of the call.
C32_CompleteMeansResolved ==
  \A e \in Settled("runAllTests") :
    \A k \in DOMAIN out :
      (out[k].type = "progress" /\ out[k].call = e.call
         /\ out[k].stage = "complete") =>
        /\ e.outcome = "resolved"
        /\ out[k].info = Some(e.value[1].overallPassed)

\* C33: whatever the interleaving of start() and stop() calls, recording is
\* true only while the recorder holds a stream whose tracks are live, and
\* after a stop() has taken effect recording stays false until start() is
\* called again.
C33_RecordingMeansLiveStream ==
  /\ rec.recording => rec.stream # Null /\ mic.streams[rec.stream] = "live"
  /\ mic.halted => ~rec.recording

\* C34: a runAllTests() during which cleanup() was called, whatever its
\* stage, emits no 'complete' event and does not resolve: it rejects, and
\* when it settles the stream it obtained is stopped and the harness holds
\* no stream or node and is not initialized.
C34_CleanupAbortsTheRun ==
  \A e \in Settled("runAllTests") :
    e.cleaned =>
      /\ e.outcome = "rejected"
      /\ \A i \in DOMAIN e.trace : e.trace[i].stage # "complete"
      /\ e.obtained # Null => dev.streams[e.obtained] = "stopped"
      /\ ac.stream = Null /\ ac.source = Null /\ ac.volMeterWorklet = Null
      /\ ~isInitialized(ac)

\* The runAllTests() calls the hook made that have not settled.
HookRuns == {c \in DOMAIN calls : calls[c].kind = "runAllTests"}

\* C35: while a run started through the hook has not settled, the hook's
\* isRunning is true (an 'error' event of a fail-soft stage does not clear
\* it), so the hook starts no second run on the harness in that interval.
C35_RunningUntilSettled ==
  caller.view = "audio-check" =>
    /\ HookRuns # {} => caller.isRunning
    /\ Cardinality(HookRuns) <= 1

(***************************************************************************)
(* The control tray's recorder effect                                      *)
(***************************************************************************)
\* The tray mounted on a disconnected session: its recorder effect has run
\* once, not connected, and called stop() on the recorder it constructed
\* (ControlTray lines 61-66, 100-102).
InitTray ==
  /\ ac = constructor([key \in {} |-> 0])
  /\ dev = Browser("ok")
  /\ calls = << >>
  /\ caller = Awaiting
  /\ out = << >>
  /\ LET r == stop([rec |-> AudioRecorder, mic |-> Microphone("ok"),
                    starts |-> << >>, out |-> << >>])
     IN rec = r.rec /\ mic = r.mic /\ starts = r.starts
  /\ tray = [starts |-> 0, stops |-> 0, listening |-> FALSE, sent |-> << >>,
             repeated |-> 0, connected |-> FALSE, muted |-> FALSE,
             mounted |-> TRUE]
  /\ live = useLiveAPI
  /\ app = App

\* The runs of the recorder effect after the mount, and the messages the
\* worklets post, that are followed.
MaxEffects == 3
MaxTrayChunks == 2

\* A plausible slip: the effect's cleanup leaves onData registered.
effectCleanupKeepsListener(t) == t

\* The effect's cleanup (lines 104-106): off("data", onData).
effectCleanup(t) == [t EXCEPT !.listening = FALSE]

\* connected or muted changed: the cleanup of the effect's last run, then
\* its body (lines 91-102) with the new values.
TrayEffect(connected, muted) ==
  /\ tray.mounted
  /\ LET t == [effectCleanup(tray) EXCEPT !.connected = connected,
                                          !.muted = muted]
     IN IF connected /\ ~muted
        THEN /\ tray.starts + tray.stops < MaxEffects
             /\ tray' = [t EXCEPT !.listening = TRUE, !.starts = @ + 1]
             /\ Records(start(Recorder, tray.starts + 1))
        ELSE /\ tray.starts + tray.stops < MaxEffects
             /\ tray' = [t EXCEPT !.stops = @ + 1]
             /\ Records(stop(Recorder))

\* The session connects or disconnects (lines 66, 205).
TrayConnects == ~tray.connected /\ TrayEffect(TRUE, tray.muted)

TrayDisconnects == tray.connected /\ TrayEffect(FALSE, tray.muted)

\* The mute button (line 183): setMuted(!muted).
TrayMuteToggled == tray.mounted /\ TrayEffect(tray.connected, ~tray.muted)

\* The user goes back to topic selection (App's handleBackToTopics): the
\* session is disconnected and the conversation view with its tray is
\* unmounted in the same update; of the recorder effect only the cleanup runs.
TrayUnmounts ==
  /\ tray.mounted
  /\ tray' = [effectCleanup(tray) EXCEPT !.mounted = FALSE,
                                         !.connected = FALSE]
  /\ out' = << >>
  /\ UNCHANGED <<checkVars, rec, mic, starts, live, app>>

\* The messages a recorder worklet posts while the tray is watched: one
\* without a buffer, one with a buffer.
TrayMessages ==
  {[int16arrayBuffer |-> None], [int16arrayBuffer |-> Some(<<0, 16>>)]}

\* A recorder worklet that its source feeds posts a message.
TrayWorkletPosts ==
  \E k \in DOMAIN mic.worklets, ev \in TrayMessages :
    /\ mic.worklets[k].emits = "data"
    /\ mic.worklets[k].feed \in mic.connected
    /\ Len(mic.produced) + Len(mic.port) < MaxTrayChunks
    /\ mic' = [mic EXCEPT !.port = Append(@, ev),
                          !.produced = IF ev.int16arrayBuffer # None
                                       THEN Append(@, ev.int16arrayBuffer[1])
                                       ELSE @]
    /\ out' = << >>
    /\ UNCHANGED <<checkVars, rec, starts, tray, live, app>>

NextTray ==
  \/ TrayConnects \/ TrayDisconnects \/ TrayMuteToggled \/ TrayUnmounts
  \/ MicGranted \/ MicDenied \/ RecorderContextResolved
  \/ RecorderModuleAdded \/ MeterModuleAdded
  \/ TrayWorkletPosts \/ PortDelivers

SpecTray == InitTray /\ [][NextTray]_vars

\* C36: a chunk is handed to client.sendRealtimeInput only while the session
\* is connected and not muted: after the effect for a mute or a disconnect
\* has run, the chunks the recorder still emits do not reach the client.
C36_SentOnlyConnectedAndUnmuted ==
  [][Len(tray'.sent) > Len(tray.sent) => tray.connected /\ ~tray.muted]_vars

\* C36 witness: a chunk reached the client, the tray was then muted or
\* disconnected, and the recorder has just emitted a chunk that was not sent.
C36_Witness ==
  /\ tray.mounted /\ ~(tray.connected /\ ~tray.muted)
  /\ Len(tray.sent) >= 1
  /\ out # << >> /\ out[Len(out)].type = "data"
  /\ Len(tray.sent) < Len(mic.emitted)

\* C37: once the tray that owns the recorder is unmounted and no start() is
\* in flight, the recorder is stopped and no stream it opened is live.
C37_UnmountReleasesTheRecorder ==
  (~tray.mounted /\ starts = << >>) =>
    /\ ~rec.recording
    /\ rec.stream = Null
    /\ \A s \in DOMAIN mic.streams : mic.streams[s] # "live"

\* The meters have delivered no level to the harness so far.
Silent == dev.posted = 0

\* The record of an echo test that heard nothing.
SilentEcho ==
  Some([passed |-> ac.config.echoThreshold > 0, echoLevel |-> RatOf(0)])

\* The record of a mic test that heard nothing.
SilentMic == Some([level |-> 0, noise |-> 0])

====
